---- MODULE Spec2Model ----
(***************************************************************************)
(* A gossip dissemination node (arkadashsiz/Gossip, C).                    *)
(*                                                                         *)
(* One node is the state node_t holds: the membership view, the seen-set   *)
(* ring, the gossip store ring and the event sink, worked on by the        *)
(* listener thread (one handler per datagram), the ping thread, the pull   *)
(* thread and the main thread that injects messages.                       *)
(*                                                                         *)
(* Atomicity.  Each handler is one action.  A handler's critical sections  *)
(* are on node->lock (seen-set, store) and on membership.lock (view); the  *)
(* sections of one handler touch disjoint state from whatever another      *)
(* thread can do between them, or (handle_peers_list, ping round) every    *)
(* interleaving reaches a state that a sequence of whole handlers on a     *)
(* split input also reaches.  The main thread's injection is two actions,  *)
(* because main.c releases node->lock between mark_seen and the store.     *)
(* ThreadSpec and ShutdownSpec take the threads statement by statement     *)
(* instead: they follow the locks, the sent-message counter, the running   *)
(* flag, the socket and the sink, which the handler-level actions leave    *)
(* as node_run left them.                                                  *)
(*                                                                         *)
(* Time is counted in seconds: current_time_ms() is clock * 1000.          *)
(***************************************************************************)
EXTENDS Integers, Sequences, FiniteSets, TLC

(***************************************************************************)
(* Sizes.  The three array sizes are those of member.h and node.h scaled   *)
(* down (64, 2000 and 500 there) so that the rings wrap and the view fills *)
(* within a few steps; the others bound the exploration.                   *)
(***************************************************************************)
MAX_PEERS == 2

MAX_SEEN_MSGS == 2

MAX_STORED_GOSSIP == 2

MaxClock == 2

MaxSeenCount == 4

MaxStoreCount == 4

MaxLog == 4

MaxNonce == 1

\* sha256_hex writes 64 hex characters and a NUL at hex_out[64]
DIGEST_HEX_LEN == 64

\* Buffer sizes of message.h and serialization.h, in characters, scaled down
\* (128, 32, 64, 64, 8192 and 2048 there).  As in the source, a payload that
\* fits gossip_msg_t.payload can be longer than the wire buffer holds.
ID_LEN == 3

MSG_TYPE_LEN == 3

NODE_ID_LEN == 3

ADDR_STR_LEN == 3

MSG_BUF_SIZE == 4

MAX_SERIALIZED_LEN == 29

(***************************************************************************)
(* Addresses, identities, message ids                                      *)
(***************************************************************************)
\* socket addresses (ip, port); NoAddr is the NULL exclude pointer
Addrs == {"a", "b", "c", "d"}

NoAddr == "none"

\* node_id (uuid_unparse) of the process at an address
NodeIdOf(addr) == CASE addr = "a" -> "ua" [] addr = "b" -> "ub" [] OTHER -> "uc"

\* a number standing for the bytes of a node_id in the hash stand-in
IdNum(id) == CASE id = "ua" -> 1 [] id = "ub" -> 2 [] id = "uc" -> 3 [] OTHER -> 4

\* a msg_id is a prefix and a number: "PING_<ms>", "<node_id>_<ms>", ...
NoId == <<"", 0>>

current_time_ms(clk) == clk * 1000

(***************************************************************************)
(* Envelope codec (serialization.c).  The wire form is the fields in the   *)
(* fixed key order; the payload is inlined last.  The nodes of the model   *)
(* exchange envelopes whose wire form is taken field by field; the codec   *)
(* on the text of the buffer follows.                                      *)
(***************************************************************************)
NoMsg ==
    [version |-> 0, msg_id |-> NoId, msg_type |-> "", sender_id |-> "",
     sender_addr |-> NoAddr, timestamp_ms |-> 0, ttl |-> 0, payload |-> [none |-> 0]]

serialize_message(msg) ==
    <<msg.version, msg.msg_id, msg.msg_type, msg.sender_id, msg.sender_addr,
      msg.timestamp_ms, msg.ttl, msg.payload>>

\* sscanf must convert the seven scalar fields, then "payload": must be found
deserialize_ok(buf) == Len(buf) >= 8

deserialize_message(buf) ==
    [version |-> buf[1], msg_id |-> buf[2], msg_type |-> buf[3],
     sender_id |-> buf[4], sender_addr |-> buf[5], timestamp_ms |-> buf[6],
     ttl |-> buf[7], payload |-> buf[8]]

(***************************************************************************)
(* The codec on text.  A buffer is a sequence of characters; each literal  *)
(* piece of the format string and each printed number is one element, the  *)
(* contents of the %s fields are one element per character.                *)
(***************************************************************************)
Quote == "\""

\* %d and %llu: the decimal text of a number
PrintD(n) ==
    CASE n = -1 -> "-1" [] n = 0 -> "0" [] n = 1 -> "1" [] n = 2 -> "2"
      [] n = 5 -> "5" [] OTHER -> "7"

Numbers == {-1, 0, 1, 2, 5, 7}

\* snprintf: [len |-> the length the whole text has, text |-> what fits buf_size]
serialize_message_text(msg, buf_size) ==
    LET whole == <<"{\"version\":", PrintD(msg.version), ",\"msg_id\":", Quote>>
                 \o msg.msg_id \o <<Quote, ",\"msg_type\":", Quote>>
                 \o msg.msg_type \o <<Quote, ",\"sender_id\":", Quote>>
                 \o msg.sender_id \o <<Quote, ",\"sender_addr\":", Quote>>
                 \o msg.sender_addr
                 \o <<Quote, ",\"timestamp_ms\":", PrintD(msg.timestamp_ms),
                      ",\"ttl\":", PrintD(msg.ttl), ",", "\"payload\":">>
                 \o msg.payload \o <<"}">>
        kept == IF Len(whole) < buf_size THEN Len(whole) ELSE buf_size - 1 IN
    [len |-> Len(whole), text |-> SubSeq(whole, 1, kept)]

\* sscanf matching the literal pieces lits from pos on
RECURSIVE ScanLits(_, _, _, _)
ScanLits(buffer, pos, lits, i) ==
    IF i > Len(lits) THEN [ok |-> TRUE, next |-> pos]
    ELSE IF pos > Len(buffer) \/ buffer[pos] # lits[i] THEN [ok |-> FALSE, next |-> pos]
    ELSE ScanLits(buffer, pos + 1, lits, i + 1)

\* %d: one number
ScanD(buffer, pos) ==
    IF pos <= Len(buffer) /\ \E n \in Numbers : PrintD(n) = buffer[pos]
    THEN [ok |-> TRUE, val |-> CHOOSE n \in Numbers : PrintD(n) = buffer[pos],
          next |-> pos + 1]
    ELSE [ok |-> FALSE, val |-> 0, next |-> pos]

\* %<width>[^"]: the longest run of characters other than '"', at most width
RECURSIVE ScanSetLen(_, _, _, _)
ScanSetLen(buffer, pos, width, k) ==
    IF k >= width \/ pos + k > Len(buffer) \/ buffer[pos + k] = Quote THEN k
    ELSE ScanSetLen(buffer, pos, width, k + 1)

\* a %[ conversion fails when it matches no character
ScanSet(buffer, pos, width) ==
    LET k == ScanSetLen(buffer, pos, width, 0) IN
    [ok |-> k >= 1, val |-> SubSeq(buffer, pos, pos + k - 1), next |-> pos + k]

\* strstr(buffer, key): the index of the first occurrence, 0 for NULL
RECURSIVE StrStr(_, _, _)
StrStr(buffer, key, i) ==
    IF i > Len(buffer) THEN 0
    ELSE IF buffer[i] = key THEN i
    ELSE StrStr(buffer, key, i + 1)

\* while (end > p && *end != '}') end--;  (indices from 1; Len + 1 is the NUL)
RECURSIVE WalkBack(_, _, _)
WalkBack(buffer, p, end) ==
    IF end > p /\ (end > Len(buffer) \/ buffer[end] # "}")
    THEN WalkBack(buffer, p, end - 1)
    ELSE end

\* the trim of trailing '\n', '\r' and ' '
RECURSIVE TrimRight(_)
TrimRight(str) ==
    IF Len(str) > 0 /\ str[Len(str)] \in {" ", "\n", "\r"}
    THEN TrimRight(SubSeq(str, 1, Len(str) - 1))
    ELSE str

\* deserialize_message: [ret |-> 0 or -1, msg |-> the fields written]
deserialize_message_text(buffer) ==
    LET l1 == ScanLits(buffer, 1, <<"{\"version\":">>, 1)
        c1 == ScanD(buffer, l1.next)
        l2 == ScanLits(buffer, c1.next, <<",\"msg_id\":", Quote>>, 1)
        c2 == ScanSet(buffer, l2.next, ID_LEN - 1)
        l3 == ScanLits(buffer, c2.next, <<Quote, ",\"msg_type\":", Quote>>, 1)
        c3 == ScanSet(buffer, l3.next, MSG_TYPE_LEN - 1)
        l4 == ScanLits(buffer, c3.next, <<Quote, ",\"sender_id\":", Quote>>, 1)
        c4 == ScanSet(buffer, l4.next, NODE_ID_LEN - 1)
        l5 == ScanLits(buffer, c4.next, <<Quote, ",\"sender_addr\":", Quote>>, 1)
        c5 == ScanSet(buffer, l5.next, ADDR_STR_LEN - 1)
        l6 == ScanLits(buffer, c5.next, <<Quote, ",\"timestamp_ms\":">>, 1)
        c6 == ScanD(buffer, l6.next)
        l7 == ScanLits(buffer, c6.next, <<",\"ttl\":">>, 1)
        c7 == ScanD(buffer, l7.next)
        items == l1.ok /\ c1.ok /\ l2.ok /\ c2.ok /\ l3.ok /\ c3.ok /\ l4.ok /\ c4.ok
                 /\ l5.ok /\ c5.ok /\ l6.ok /\ c6.ok /\ l7.ok /\ c7.ok
        key == StrStr(buffer, "\"payload\":", 1)
        p == key + 1
        end == WalkBack(buffer, p, Len(buffer) + 1)
        copied == SubSeq(buffer, p, end - 1)
        payload == TrimRight(IF Len(copied) >= MSG_BUF_SIZE
                             THEN SubSeq(copied, 1, MSG_BUF_SIZE - 1) ELSE copied)
        failed == [ret |-> -1, msg |-> [version |-> 0]] IN
    IF ~items THEN failed
    ELSE IF key = 0 THEN failed
    ELSE IF end <= p THEN failed
    ELSE [ret |-> 0,
          msg |-> [version |-> c1.val, msg_id |-> c2.val, msg_type |-> c3.val,
                   sender_id |-> c4.val, sender_addr |-> c5.val,
                   timestamp_ms |-> c6.val, ttl |-> c7.val, payload |-> payload]]

\* a control message as every handler builds it: version 1, ttl 1
Control(type, prefix, self, clk, payload) ==
    [version |-> 1, msg_id |-> <<prefix, current_time_ms(clk)>>, msg_type |-> type,
     sender_id |-> NodeIdOf(self), sender_addr |-> self,
     timestamp_ms |-> current_time_ms(clk), ttl |-> 1, payload |-> payload]

\* send_msg: one datagram to dest
send_msg(msg, dest) == [to |-> dest, bytes |-> serialize_message(msg)]

(***************************************************************************)
(* Membership view (member.c, node.c)                                      *)
(***************************************************************************)
membership_init(limit) ==
    [list |-> <<>>, limit |-> IF limit > MAX_PEERS THEN MAX_PEERS ELSE limit]

\* the first index whose record has this (ip, port), 0 when there is none
RECURSIVE FindPeer(_, _, _)
FindPeer(list, addr, i) ==
    IF i > Len(list) THEN 0
    ELSE IF list[i].addr = addr THEN i
    ELSE FindPeer(list, addr, i + 1)

\* faulty variant of membership_add: no scan for the address, it is appended
\* whenever there is room
membership_add_noscan(m, addr, now) ==
    IF Len(m.list) < m.limit
    THEN [m EXCEPT !.list = Append(@, [addr |-> addr, last_seen |-> now])]
    ELSE m

\* faulty variant of membership_add: a full view gives up its oldest slot
membership_add_evict(m, addr, now) ==
    LET i == FindPeer(m.list, addr, 1) IN
    IF i > 0 THEN [m EXCEPT !.list[i].last_seen = now]
    ELSE IF Len(m.list) < m.limit
         THEN [m EXCEPT !.list = Append(@, [addr |-> addr, last_seen |-> now])]
         ELSE IF Len(m.list) > 0
              THEN [m EXCEPT !.list[1] = [addr |-> addr, last_seen |-> now]]
              ELSE m

\* faulty variant of membership_add: the test count < limit is missing
membership_add_unbounded(m, addr, now) ==
    LET i == FindPeer(m.list, addr, 1) IN
    IF i > 0 THEN [m EXCEPT !.list[i].last_seen = now]
    ELSE [m EXCEPT !.list = Append(@, [addr |-> addr, last_seen |-> now])]

membership_add(m, addr, now) ==
    LET i == FindPeer(m.list, addr, 1) IN
    IF i > 0 THEN [m EXCEPT !.list[i].last_seen = now]
    ELSE IF Len(m.list) < m.limit
         THEN [m EXCEPT !.list = Append(@, [addr |-> addr, last_seen |-> now])]
         ELSE m

\* the value membership_add returns: 0 refreshed, 1 added, -1 view full
membership_add_ret(m, addr) ==
    IF FindPeer(m.list, addr, 1) > 0 THEN 0
    ELSE IF Len(m.list) < m.limit THEN 1
    ELSE -1

Swap(s, i, j) == [s EXCEPT ![i] = s[j], ![j] = s[i]]

\* faulty variant of the shuffle: indices[i] = indices[j] without the exchange
RECURSIVE FisherYates_copy(_, _)
FisherYates_copy(indices, i) ==
    IF i <= 1 THEN {indices}
    ELSE UNION {FisherYates_copy([indices EXCEPT ![i] = indices[j]], i - 1) : j \in 1..i}

\* the shuffle of the index array: rand() % (i+1) is any of the i+1 indices
RECURSIVE FisherYates(_, _)
FisherYates(indices, i) ==
    IF i <= 1 THEN {indices}
    ELSE UNION {FisherYates(Swap(indices, i, j), i - 1) : j \in 1..i}

\* faulty variant of the selection loop: it stops after count candidates
\* (i < count), whether they were taken or skipped
RECURSIVE PickTargets_first(_, _, _, _, _, _)
PickTargets_first(list, indices, i, count, exclude, targets) ==
    IF ~(i <= Len(list) /\ i <= count) THEN targets
    ELSE LET candidate == list[indices[i]].addr IN
         IF exclude # NoAddr /\ candidate = exclude
         THEN PickTargets_first(list, indices, i + 1, count, exclude, targets)
         ELSE PickTargets_first(list, indices, i + 1, count, exclude,
                                Append(targets, candidate))

\* the selection loop: for (i = 0; i < m->count && found < count; i++)
RECURSIVE PickTargets(_, _, _, _, _, _)
PickTargets(list, indices, i, count, exclude, targets) ==
    IF ~(i <= Len(list) /\ Len(targets) < count) THEN targets
    ELSE LET candidate == list[indices[i]].addr IN
         IF exclude # NoAddr /\ candidate = exclude
         THEN PickTargets(list, indices, i + 1, count, exclude, targets)
         ELSE PickTargets(list, indices, i + 1, count, exclude,
                          Append(targets, candidate))

\* every targets array the call can fill, one per outcome of rand()
membership_get_random(m, count, exclude) ==
    IF Len(m.list) = 0 THEN {<<>>}
    ELSE {PickTargets(m.list, indices, 1, count, exclude, <<>>) :
            indices \in FisherYates([i \in 1..Len(m.list) |-> i], Len(m.list))}

\* faulty variant of ExpireLoop: a peer is removed at an age of peer_timeout
\* already (>= for >)
RECURSIVE ExpireLoop_eager(_, _, _, _)
ExpireLoop_eager(list, i, now, peer_timeout) ==
    IF i > Len(list) THEN list
    ELSE IF (now - list[i].last_seen) >= peer_timeout * 1000
         THEN ExpireLoop_eager(SubSeq([list EXCEPT ![i] = list[Len(list)]],
                                      1, Len(list) - 1),
                               i, now, peer_timeout)
         ELSE ExpireLoop_eager(list, i + 1, now, peer_timeout)

\* faulty variant of ExpireLoop: i++ also after a removal, so that the peer
\* swapped into slot i is not examined
RECURSIVE ExpireLoop_skip(_, _, _, _)
ExpireLoop_skip(list, i, now, peer_timeout) ==
    IF i > Len(list) THEN list
    ELSE IF (now - list[i].last_seen) > peer_timeout * 1000
         THEN ExpireLoop_skip(SubSeq([list EXCEPT ![i] = list[Len(list)]],
                                     1, Len(list) - 1),
                              i + 1, now, peer_timeout)
         ELSE ExpireLoop_skip(list, i + 1, now, peer_timeout)

\* for (i = 0; i < count; ) with swap-with-last removal
RECURSIVE ExpireLoop(_, _, _, _)
ExpireLoop(list, i, now, peer_timeout) ==
    IF i > Len(list) THEN list
    ELSE IF (now - list[i].last_seen) > peer_timeout * 1000
         THEN ExpireLoop(SubSeq([list EXCEPT ![i] = list[Len(list)]], 1, Len(list) - 1),
                         i, now, peer_timeout)
         ELSE ExpireLoop(list, i + 1, now, peer_timeout)

membership_remove_expired(m, now, peer_timeout) ==
    [m EXCEPT !.list = ExpireLoop(m.list, 1, now, peer_timeout)]

(***************************************************************************)
(* Seen-set ring and gossip store ring (node.c)                            *)
(***************************************************************************)
EmptySeen == [i \in 0..(MAX_SEEN_MSGS - 1) |-> NoId]

EmptyStore == [i \in 0..(MAX_STORED_GOSSIP - 1) |-> [msg_id |-> NoId, serialized |-> <<>>]]

\* the scan of mark_seen and of handle_ihave: strcmp over the first `limit` slots
seen_contains(ids, count, msg_id) ==
    LET limit == IF count < MAX_SEEN_MSGS THEN count ELSE MAX_SEEN_MSGS IN
    \E i \in 0..(limit - 1) : ids[i % MAX_SEEN_MSGS] = msg_id

\* faulty variant of mark_seen: a new id is written one slot too far
mark_seen_wrongslot(ids, count, msg_id) ==
    IF seen_contains(ids, count, msg_id)
    THEN [seen |-> 1, ids |-> ids, count |-> count]
    ELSE [seen |-> 0, ids |-> [ids EXCEPT ![(count + 1) % MAX_SEEN_MSGS] = msg_id],
          count |-> count + 1]

\* faulty variant of mark_seen: no scan, every id is inserted as new
mark_seen_blind(ids, count, msg_id) ==
    [seen |-> 0, ids |-> [ids EXCEPT ![count % MAX_SEEN_MSGS] = msg_id],
     count |-> count + 1]

\* faulty variant of mark_seen: the scan stops one slot early (i < limit - 1)
mark_seen_short(ids, count, msg_id) ==
    LET limit == IF count < MAX_SEEN_MSGS THEN count ELSE MAX_SEEN_MSGS IN
    IF \E i \in 0..(limit - 2) : ids[i % MAX_SEEN_MSGS] = msg_id
    THEN [seen |-> 1, ids |-> ids, count |-> count]
    ELSE [seen |-> 0, ids |-> [ids EXCEPT ![count % MAX_SEEN_MSGS] = msg_id],
          count |-> count + 1]

\* mark_seen: [seen |-> 1 if it was already seen, ids, count after the call]
mark_seen(ids, count, msg_id) ==
    IF seen_contains(ids, count, msg_id)
    THEN [seen |-> 1, ids |-> ids, count |-> count]
    ELSE [seen |-> 0, ids |-> [ids EXCEPT ![count % MAX_SEEN_MSGS] = msg_id],
          count |-> count + 1]

store_gossip(store, count, msg) ==
    [store |-> [store EXCEPT ![count % MAX_STORED_GOSSIP] =
                    [msg_id |-> msg.msg_id, serialized |-> serialize_message(msg)]],
     count |-> count + 1]

\* find_stored: the first slot holding msg_id, -1 for NULL
RECURSIVE FindStoredFrom(_, _, _, _)
FindStoredFrom(store, total, msg_id, i) ==
    IF i >= total THEN -1
    ELSE IF store[i].msg_id = msg_id THEN i
    ELSE FindStoredFrom(store, total, msg_id, i + 1)

find_stored(store, count, msg_id) ==
    FindStoredFrom(store, IF count < MAX_STORED_GOSSIP THEN count ELSE MAX_STORED_GOSSIP,
                   msg_id, 0)

(***************************************************************************)
(* Proof of work (utils.c, node.c).  SHA-256 itself is outside the model:  *)
(* sha256_hex is a fixed function of (node_id, nonce) to 64 hex digits,    *)
(* with between 0 and 4 leading zeros.                                     *)
(***************************************************************************)
sha256_hex(node_id, nonce) ==
    LET zeros == (IdNum(node_id) * 2 + nonce * 3) % 5 IN
    [i \in 1..DIGEST_HEX_LEN |->
        IF i <= zeros THEN 0 ELSE 1 + ((IdNum(node_id) + nonce + i) % 15)]

\* hex[i] of the C buffer: index 64 holds the NUL, which is not '0'
HexAt(hex, i) == IF i < DIGEST_HEX_LEN THEN hex[i + 1] ELSE -1

\* for (i = 0; i < difficulty; i++) if (hex[i] != '0') return 0; return 1;
RECURSIVE PowLoop(_, _, _)
PowLoop(hex, i, difficulty) ==
    IF i >= difficulty THEN 1
    ELSE IF HexAt(hex, i) # 0 THEN 0
    ELSE PowLoop(hex, i + 1, difficulty)

\* faulty variant of pow_check: the loop runs to difficulty - 1
pow_check_short(node_id, nonce, difficulty) ==
    PowLoop(sha256_hex(node_id, nonce), 0, difficulty - 1)

pow_check(node_id, nonce, difficulty) ==
    PowLoop(sha256_hex(node_id, nonce), 0, difficulty)

\* pow_mine: the first nonce from 0 upward that passes
RECURSIVE MineFrom(_, _, _)
MineFrom(node_id, difficulty, nonce) ==
    IF PowLoop(sha256_hex(node_id, nonce), 0, difficulty) = 1 THEN nonce
    ELSE MineFrom(node_id, difficulty, nonce + 1)

pow_mine(node_id, difficulty) == MineFrom(node_id, difficulty, 0)

node_build_hello_payload(node_id, pow_difficulty) ==
    IF pow_difficulty <= 0 THEN [capabilities |-> "udp,json"]
    ELSE LET nonce == pow_mine(node_id, pow_difficulty) IN
         [capabilities |-> "udp,json", difficulty_k |-> pow_difficulty,
          nonce |-> nonce, digest_hex |-> sha256_hex(node_id, nonce)]

\* faulty variant of node_verify_hello_pow: the digest_hex carried is trusted
node_verify_hello_pow_trusting(pow_difficulty, msg) ==
    IF pow_difficulty <= 0 THEN 1
    ELSE IF "digest_hex" \notin DOMAIN msg.payload THEN 0
    ELSE PowLoop(msg.payload.digest_hex, 0, pow_difficulty)

\* the nonce is read after the "nonce": key; digest_hex is never read
node_verify_hello_pow(pow_difficulty, msg) ==
    IF pow_difficulty <= 0 THEN 1
    ELSE IF "nonce" \notin DOMAIN msg.payload THEN 0
    ELSE pow_check(msg.sender_id, msg.payload.nonce, pow_difficulty)

(***************************************************************************)
(* Push flooder and the handlers' pure parts (node.c)                      *)
(***************************************************************************)
\* faulty variant of relay_gossip: the sample is asked for every peer of the view
relay_gossip_flood(m, fanout, msg, exclude) ==
    IF msg.ttl <= 0 THEN {<<>>}
    ELSE LET relay == [msg EXCEPT !.ttl = @ - 1] IN
         {[i \in 1..Len(targets) |-> send_msg(relay, targets[i])] :
            targets \in membership_get_random(m, Len(m.list), exclude)}

\* faulty variant of relay_gossip: the copy keeps the ttl it arrived with
relay_gossip_keep_ttl(m, fanout, msg, exclude) ==
    IF msg.ttl <= 0 THEN {<<>>}
    ELSE {[i \in 1..Len(targets) |-> send_msg(msg, targets[i])] :
            targets \in membership_get_random(m, fanout, exclude)}

\* relay_gossip: every sequence of datagrams one call can send
relay_gossip(m, fanout, msg, exclude) ==
    IF msg.ttl <= 0 THEN {<<>>}
    ELSE LET relay == [msg EXCEPT !.ttl = @ - 1] IN
         {[i \in 1..Len(targets) |-> send_msg(relay, targets[i])] :
            targets \in membership_get_random(m, fanout, exclude)}

\* handle_get_peers: the PEERS_LIST built from the view, sent to the asker
handle_get_peers(m, self, clk, sender) ==
    <<send_msg(Control("PEERS_LIST", "PEERS", self, clk,
                       [peers |-> [i \in 1..Len(m.list) |-> m.list[i].addr]]),
               sender)>>

\* faulty variant of handle_hello: the sender is added before the PoW is verified
handle_hello_add_first(m, pow_difficulty, msg, sender, self, clk) ==
    LET added == membership_add(m, sender, current_time_ms(clk)) IN
    IF node_verify_hello_pow(pow_difficulty, msg) = 0
    THEN [membership |-> added, sent |-> <<>>]
    ELSE [membership |-> added, sent |-> handle_get_peers(added, self, clk, sender)]

\* handle_hello: the view and the datagrams after the call
handle_hello(m, pow_difficulty, msg, sender, self, clk) ==
    IF node_verify_hello_pow(pow_difficulty, msg) = 0
    THEN [membership |-> m, sent |-> <<>>]
    ELSE LET added == membership_add(m, sender, current_time_ms(clk)) IN
         [membership |-> added, sent |-> handle_get_peers(added, self, clk, sender)]

\* handle_peers_list: membership_add of every addr found, in payload order
RECURSIVE AddPeers(_, _, _, _)
AddPeers(m, peers, i, now) ==
    IF i > Len(peers) THEN m
    ELSE AddPeers(membership_add(m, peers[i], now), peers, i + 1, now)

handle_peers_list(m, msg, clk) ==
    IF "peers" \notin DOMAIN msg.payload THEN m
    ELSE AddPeers(m, msg.payload.peers, 1, current_time_ms(clk))

\* faulty variant of handle_ping: reply_to names the PONG itself
handle_ping_own_id(m, msg, sender, self, clk) ==
    [membership |-> membership_add(m, sender, current_time_ms(clk)),
     sent |-> <<send_msg(Control("PONG", "PONG", self, clk,
                                 [reply_to |-> <<"PONG", current_time_ms(clk)>>]), sender)>>]

handle_ping(m, msg, sender, self, clk) ==
    [membership |-> membership_add(m, sender, current_time_ms(clk)),
     sent |-> <<send_msg(Control("PONG", "PONG", self, clk,
                                 [reply_to |-> msg.msg_id]), sender)>>]

handle_pong(m, sender, clk) == membership_add(m, sender, current_time_ms(clk))

\* faulty variant of WantIds: every advertised id is wanted, seen or not
WantIds_all(ids, count, msg) ==
    IF "ids" \notin DOMAIN msg.payload THEN <<>> ELSE msg.payload.ids

\* handle_ihave: the ids of the "ids" array that the seen-set scan does not find
WantIds(ids, count, msg) ==
    IF "ids" \notin DOMAIN msg.payload THEN <<>>
    ELSE SelectSeq(msg.payload.ids, LAMBDA id : ~seen_contains(ids, count, id))

\* faulty variant of handle_ihave: the ids found by the scan are the ones requested
handle_ihave_inverted(ids, count, msg, sender, self, clk) ==
    LET want == IF "ids" \notin DOMAIN msg.payload THEN <<>>
                ELSE SelectSeq(msg.payload.ids, LAMBDA id : seen_contains(ids, count, id)) IN
    IF Len(want) = 0 THEN <<>>
    ELSE <<send_msg(Control("IWANT", "IWANT", self, clk, [ids |-> want]), sender)>>

handle_ihave(ids, count, msg, sender, self, clk) ==
    LET want == WantIds(ids, count, msg) IN
    IF Len(want) = 0 THEN <<>>
    ELSE <<send_msg(Control("IWANT", "IWANT", self, clk, [ids |-> want]), sender)>>

\* faulty variant of IWantReplies: the reply carries one hop less than the stored copy
RECURSIVE IWantReplies_decrement(_, _, _, _, _)
IWantReplies_decrement(store, count, requested, i, sender) ==
    IF i > Len(requested) THEN <<>>
    ELSE LET sg == find_stored(store, count, requested[i])
             rest == IWantReplies_decrement(store, count, requested, i + 1, sender) IN
         IF sg >= 0
         THEN <<[to |-> sender, bytes |-> [store[sg].serialized EXCEPT ![7] = @ - 1],
                 msg_id |-> requested[i]]>> \o rest
         ELSE rest

\* handle_iwant: the stored bytes of every requested id found, in request order
RECURSIVE IWantReplies(_, _, _, _, _)
IWantReplies(store, count, requested, i, sender) ==
    IF i > Len(requested) THEN <<>>
    ELSE LET sg == find_stored(store, count, requested[i])
             rest == IWantReplies(store, count, requested, i + 1, sender) IN
         IF sg >= 0
         THEN <<[to |-> sender, bytes |-> store[sg].serialized,
                 msg_id |-> requested[i]]>> \o rest
         ELSE rest

handle_iwant(store, count, msg, sender) ==
    IF "ids" \notin DOMAIN msg.payload THEN <<>>
    ELSE IWantReplies(store, count, msg.payload.ids, 1, sender)

\* faulty variant of CollectIds: the ring is walked forward from start
RECURSIVE CollectIds_forward(_, _, _, _, _)
CollectIds_forward(ids, start, limit, i, collected) ==
    IF ~(i < MAX_SEEN_MSGS /\ Len(collected) < limit) THEN collected
    ELSE LET idx == (start + i) % MAX_SEEN_MSGS IN
         IF ids[idx] = NoId THEN CollectIds_forward(ids, start, limit, i + 1, collected)
         ELSE CollectIds_forward(ids, start, limit, i + 1, Append(collected, ids[idx]))

\* pull_thread_func: the ids of one IHAVE, newest first
RECURSIVE CollectIds(_, _, _, _, _)
CollectIds(ids, start, limit, i, collected) ==
    IF ~(i < MAX_SEEN_MSGS /\ Len(collected) < limit) THEN collected
    ELSE LET idx == (start + MAX_SEEN_MSGS - i - 1) % MAX_SEEN_MSGS IN
         IF ids[idx] = NoId THEN CollectIds(ids, start, limit, i + 1, collected)
         ELSE CollectIds(ids, start, limit, i + 1, Append(collected, ids[idx]))

IHaveIds(ids, count, max_ihave_ids) ==
    LET total == IF count < MAX_SEEN_MSGS THEN count ELSE MAX_SEEN_MSGS
        limit == IF total < max_ihave_ids THEN total ELSE max_ihave_ids
        start == IF count >= MAX_SEEN_MSGS THEN count % MAX_SEEN_MSGS ELSE 0 IN
    CollectIds(ids, start, limit, 0, <<>>)

\* the GOSSIP envelope main builds for a message typed or given with -m
InjectedMsg(self, ttl, clk) ==
    [version |-> 1, msg_id |-> <<NodeIdOf(self), current_time_ms(clk)>>,
     msg_type |-> "GOSSIP", sender_id |-> NodeIdOf(self), sender_addr |-> self,
     timestamp_ms |-> current_time_ms(clk), ttl |-> ttl,
     payload |-> [topic |-> "news", data |-> "hi"]]

(***************************************************************************)
(* State                                                                   *)
(***************************************************************************)
VARIABLES
    cfg,                \* per node: the configuration node_init freezes
    membership,         \* per node: membership_t (list[0..count-1], limit)
    seen_ids,           \* per node: seen_ids[MAX_SEEN_MSGS]
    seen_count,         \* per node: seen_count
    gossip_store,       \* per node: gossip_store[MAX_STORED_GOSSIP]
    gossip_store_count, \* per node: gossip_store_count
    log,                \* per node: the GOSSIP records of the event sink, in order
    ins,                \* per node: every id mark_seen inserted, in order (history)
    inj,                \* per node: the message main is injecting, between its locks
    net,                \* datagrams in flight between the nodes of the model
    clock,              \* the wall clock, in seconds
    last,               \* the last step: what was handled and what it sent
    running,            \* per node: node->running
    sockfd,             \* per node: node->sockfd, "open" or "closed"
    log_file,           \* per node: node->log_file, "open" or "closed"
    sent_messages,      \* per node: node->sent_messages
    lock,               \* per node: the thread that holds node->lock, or "none"
    membership_lock,    \* per node: the thread that holds membership.lock, or "none"
    threads             \* per node and thread: where the thread is in its code

\* what the thread-level actions work on
duties == <<running, sockfd, log_file, sent_messages, lock, membership_lock, threads>>

\* what the handler-level actions work on
data == <<cfg, membership, seen_ids, seen_count, gossip_store, gossip_store_count,
          log, ins, inj, net, clock, last>>

vars == <<cfg, membership, seen_ids, seen_count, gossip_store, gossip_store_count,
          log, ins, inj, net, clock, last,
          running, sockfd, log_file, sent_messages, lock, membership_lock, threads>>

Nodes == DOMAIN cfg

Step(op, n, from, msg, seen, sent) ==
    [op |-> op, node |-> n, from |-> from, msg |-> msg, seen |-> seen, sent |-> sent]

\* the SEND records send_msg and handle_iwant append for GOSSIP datagrams
SendRecords(sent) ==
    [i \in 1..Len(sent) |-> <<"SEND", sent[i].bytes[3], sent[i].bytes[2]>>]

\* the datagrams of a step that are addressed to a node of the model
ToNet(n, sent) ==
    {[to |-> sent[i].to, from |-> n, bytes |-> sent[i].bytes] :
        i \in {j \in 1..Len(sent) : sent[j].to \in Nodes}}

(***************************************************************************)
(* Listener thread: one action per handler                                 *)
(***************************************************************************)
HandleHello(n, msg, from) ==
    LET r == handle_hello(membership[n], cfg[n].pow_difficulty, msg, from, n, clock) IN
    /\ membership' = [membership EXCEPT ![n] = r.membership]
    /\ last' = Step("handle_hello", n, from, msg, -1, r.sent)
    /\ UNCHANGED <<seen_ids, seen_count, gossip_store, gossip_store_count, log, ins>>

HandleGetPeers(n, msg, from) ==
    /\ last' = Step("handle_get_peers", n, from, msg, -1,
                    handle_get_peers(membership[n], n, clock, from))
    /\ UNCHANGED <<membership, seen_ids, seen_count, gossip_store,
                   gossip_store_count, log, ins>>

HandlePeersList(n, msg, from) ==
    /\ membership' = [membership EXCEPT ![n] = handle_peers_list(@, msg, clock)]
    /\ last' = Step("handle_peers_list", n, from, msg, -1, <<>>)
    /\ UNCHANGED <<seen_ids, seen_count, gossip_store, gossip_store_count, log, ins>>

\* faulty variant of HandleGossip: the relay sends are recorded before the RECEIVE
HandleGossip_relay_first(n, msg, from) ==
    LET r == mark_seen(seen_ids[n], seen_count[n], msg.msg_id) IN
    IF r.seen = 1
    THEN /\ last' = Step("handle_gossip", n, from, msg, 1, <<>>)
         /\ UNCHANGED <<membership, seen_ids, seen_count, gossip_store,
                        gossip_store_count, log, ins>>
    ELSE /\ seen_count[n] < MaxSeenCount
         /\ gossip_store_count[n] < MaxStoreCount
         /\ Len(log[n]) < MaxLog
         /\ \E sent \in relay_gossip(membership[n], cfg[n].fanout, msg, from) :
              LET st == store_gossip(gossip_store[n], gossip_store_count[n], msg) IN
              /\ seen_ids' = [seen_ids EXCEPT ![n] = r.ids]
              /\ seen_count' = [seen_count EXCEPT ![n] = r.count]
              /\ ins' = [ins EXCEPT ![n] = Append(@, msg.msg_id)]
              /\ gossip_store' = [gossip_store EXCEPT ![n] = st.store]
              /\ gossip_store_count' = [gossip_store_count EXCEPT ![n] = st.count]
              /\ log' = [log EXCEPT ![n] =
                            SendRecords(sent)
                            \o <<<<"RECEIVE", msg.msg_type, msg.msg_id>>>>]
              /\ last' = Step("handle_gossip", n, from, msg, 0, sent)
         /\ UNCHANGED membership

HandleGossip(n, msg, from) ==
    LET r == mark_seen(seen_ids[n], seen_count[n], msg.msg_id) IN
    IF r.seen = 1
    THEN /\ last' = Step("handle_gossip", n, from, msg, 1, <<>>)
         /\ UNCHANGED <<membership, seen_ids, seen_count, gossip_store,
                        gossip_store_count, log, ins>>
    ELSE /\ seen_count[n] < MaxSeenCount
         /\ gossip_store_count[n] < MaxStoreCount
         /\ Len(log[n]) < MaxLog
         /\ \E sent \in relay_gossip(membership[n], cfg[n].fanout, msg, from) :
              LET st == store_gossip(gossip_store[n], gossip_store_count[n], msg) IN
              /\ seen_ids' = [seen_ids EXCEPT ![n] = r.ids]
              /\ seen_count' = [seen_count EXCEPT ![n] = r.count]
              /\ ins' = [ins EXCEPT ![n] = Append(@, msg.msg_id)]
              /\ gossip_store' = [gossip_store EXCEPT ![n] = st.store]
              /\ gossip_store_count' = [gossip_store_count EXCEPT ![n] = st.count]
              /\ log' = [log EXCEPT ![n] =
                            Append(@, <<"RECEIVE", msg.msg_type, msg.msg_id>>)
                            \o SendRecords(sent)]
              /\ last' = Step("handle_gossip", n, from, msg, 0, sent)
         /\ UNCHANGED membership

HandlePing(n, msg, from) ==
    LET r == handle_ping(membership[n], msg, from, n, clock) IN
    /\ membership' = [membership EXCEPT ![n] = r.membership]
    /\ last' = Step("handle_ping", n, from, msg, -1, r.sent)
    /\ UNCHANGED <<seen_ids, seen_count, gossip_store, gossip_store_count, log, ins>>

HandlePong(n, msg, from) ==
    /\ membership' = [membership EXCEPT ![n] = handle_pong(@, from, clock)]
    /\ last' = Step("handle_pong", n, from, msg, -1, <<>>)
    /\ UNCHANGED <<seen_ids, seen_count, gossip_store, gossip_store_count, log, ins>>

HandleIHave(n, msg, from) ==
    /\ last' = Step("handle_ihave", n, from, msg, -1,
                    handle_ihave(seen_ids[n], seen_count[n], msg, from, n, clock))
    /\ UNCHANGED <<membership, seen_ids, seen_count, gossip_store,
                   gossip_store_count, log, ins>>

HandleIWant(n, msg, from) ==
    LET replies == handle_iwant(gossip_store[n], gossip_store_count[n], msg, from)
        sent == [i \in 1..Len(replies) |->
                    [to |-> replies[i].to, bytes |-> replies[i].bytes]] IN
    /\ Len(log[n]) + Len(replies) <= MaxLog
    /\ log' = [log EXCEPT ![n] =
                  @ \o [i \in 1..Len(replies) |-> <<"SEND", "GOSSIP", replies[i].msg_id>>]]
    /\ last' = Step("handle_iwant", n, from, msg, -1, sent)
    /\ UNCHANGED <<membership, seen_ids, seen_count, gossip_store,
                   gossip_store_count, ins>>

\* faulty variant of Drop: the sender is told that its datagram was dropped
Drop_reply(n, from) ==
    /\ last' = Step("drop", n, from, NoMsg, -1,
                    <<send_msg(Control("ERROR", "ERROR", n, clock, [none |-> 0]), from)>>)
    /\ UNCHANGED <<membership, seen_ids, seen_count, gossip_store,
                   gossip_store_count, log, ins>>

\* faulty variant of Drop: the sender is touched before the datagram is dropped
Drop_touch(n, from) ==
    /\ membership' = [membership EXCEPT ![n] =
                         membership_add(@, from, current_time_ms(clock))]
    /\ last' = Step("drop", n, from, NoMsg, -1, <<>>)
    /\ UNCHANGED <<seen_ids, seen_count, gossip_store, gossip_store_count, log, ins>>

\* a datagram that does not decode, or whose msg_type no branch matches
Drop(n, from) ==
    /\ last' = Step("drop", n, from, NoMsg, -1, <<>>)
    /\ UNCHANGED <<membership, seen_ids, seen_count, gossip_store,
                   gossip_store_count, log, ins>>

KnownTypes ==
    {"HELLO", "GET_PEERS", "PEERS_LIST", "GOSSIP", "PING", "PONG", "IHAVE", "IWANT"}

\* listener_thread_func: decode, then route by msg_type
Listener(n, buf, from) ==
    /\ UNCHANGED <<duties, cfg, inj, clock>>
    /\ IF ~deserialize_ok(buf) THEN Drop(n, from)
       ELSE LET msg == deserialize_message(buf) IN
            \/ msg.msg_type = "HELLO" /\ HandleHello(n, msg, from)
            \/ msg.msg_type = "GET_PEERS" /\ HandleGetPeers(n, msg, from)
            \/ msg.msg_type = "PEERS_LIST" /\ HandlePeersList(n, msg, from)
            \/ msg.msg_type = "GOSSIP" /\ HandleGossip(n, msg, from)
            \/ msg.msg_type = "PING" /\ HandlePing(n, msg, from)
            \/ msg.msg_type = "PONG" /\ HandlePong(n, msg, from)
            \/ msg.msg_type = "IHAVE" /\ HandleIHave(n, msg, from)
            \/ msg.msg_type = "IWANT" /\ HandleIWant(n, msg, from)
            \/ msg.msg_type \notin KnownTypes /\ Drop(n, from)

(***************************************************************************)
(* Ping thread, pull thread, main thread                                   *)
(***************************************************************************)
\* one round of ping_thread_func: PING a sample, then expire
PingRound(n) ==
    /\ \E targets \in membership_get_random(membership[n], cfg[n].fanout, NoAddr) :
         last' = Step("ping_round", n, NoAddr, NoMsg, -1,
                      [i \in 1..Len(targets) |->
                          send_msg(Control("PING", "PING", n, clock,
                                           [ping_id |-> <<"PING", current_time_ms(clock)>>]),
                                   targets[i])])
    /\ membership' = [membership EXCEPT ![n] =
                         membership_remove_expired(@, current_time_ms(clock),
                                                   cfg[n].peer_timeout)]
    /\ UNCHANGED <<duties, cfg, seen_ids, seen_count, gossip_store, gossip_store_count,
                   log, ins, inj, clock>>

\* one round of pull_thread_func; node_run starts it only when pull_interval > 0
PullRound(n) ==
    /\ cfg[n].pull_interval > 0
    /\ LET collected == IHaveIds(seen_ids[n], seen_count[n], cfg[n].max_ihave_ids)
           ihave == Control("IHAVE", "IHAVE", n, clock,
                            [ids |-> collected, max_ids |-> cfg[n].max_ihave_ids]) IN
       IF Len(collected) = 0
       THEN last' = Step("pull_round", n, NoAddr, NoMsg, -1, <<>>)
       ELSE \E targets \in membership_get_random(membership[n], cfg[n].fanout, NoAddr) :
              last' = Step("pull_round", n, NoAddr, ihave, -1,
                           [i \in 1..Len(targets) |-> send_msg(ihave, targets[i])])
    /\ UNCHANGED <<duties, cfg, membership, seen_ids, seen_count, gossip_store,
                   gossip_store_count, log, ins, inj, clock>>

\* main.c: build the envelope and mark it seen, under node->lock
InjectMark(n) ==
    LET m == InjectedMsg(n, cfg[n].ttl, clock)
        r == mark_seen(seen_ids[n], seen_count[n], m.msg_id) IN
    /\ inj[n] = NoMsg
    /\ seen_count[n] < MaxSeenCount
    /\ gossip_store_count[n] < MaxStoreCount
    /\ Len(log[n]) < MaxLog
    /\ inj' = [inj EXCEPT ![n] = m]
    /\ seen_ids' = [seen_ids EXCEPT ![n] = r.ids]
    /\ seen_count' = [seen_count EXCEPT ![n] = r.count]
    /\ ins' = [ins EXCEPT ![n] = IF r.seen = 0 THEN Append(@, m.msg_id) ELSE @]
    /\ last' = Step("inject_mark", n, NoAddr, m, r.seen, <<>>)
    /\ UNCHANGED <<duties, cfg, membership, gossip_store, gossip_store_count, log, clock>>

\* main.c: store the serialized form under node->lock, then log SEND and relay
InjectStoreRelay(n) ==
    LET m == inj[n]
        st == store_gossip(gossip_store[n], gossip_store_count[n], m) IN
    /\ m # NoMsg
    /\ \E sent \in relay_gossip(membership[n], cfg[n].fanout, m, NoAddr) :
         /\ log' = [log EXCEPT ![n] =
                       Append(@, <<"SEND", m.msg_type, m.msg_id>>) \o SendRecords(sent)]
         /\ last' = Step("inject", n, NoAddr, m, -1, sent)
    /\ gossip_store' = [gossip_store EXCEPT ![n] = st.store]
    /\ gossip_store_count' = [gossip_store_count EXCEPT ![n] = st.count]
    /\ inj' = [inj EXCEPT ![n] = NoMsg]
    /\ UNCHANGED <<duties, cfg, membership, seen_ids, seen_count, ins, clock>>

Tick ==
    /\ clock < MaxClock
    /\ clock' = clock + 1
    /\ UNCHANGED <<duties, cfg, membership, seen_ids, seen_count, gossip_store,
                   gossip_store_count, log, ins, inj, net, last>>

(***************************************************************************)
(* The outside world.  A node of an open world hands its datagrams to      *)
(* sendto and they leave the model; the datagrams that arrive are any of a *)
(* bounded set, sent from the socket addresses "b" and "c".                *)
(***************************************************************************)
Config(fanout, ttl, peer_limit, pull_interval, max_ihave_ids, pow_difficulty, boot) ==
    [fanout |-> fanout, ttl |-> ttl, peer_limit |-> peer_limit, peer_timeout |-> 1,
     pull_interval |-> pull_interval, max_ihave_ids |-> max_ihave_ids,
     pow_difficulty |-> pow_difficulty, boot |-> boot]

Senders == {"b", "c"}

EnvMsg(type, msg_id, sender_id, sender_addr, ttl, payload) ==
    [version |-> 1, msg_id |-> msg_id, msg_type |-> type, sender_id |-> sender_id,
     sender_addr |-> sender_addr, timestamp_ms |-> 0, ttl |-> ttl, payload |-> payload]

G1 == <<"g", 1>>

G2 == <<"g", 2>>

G3 == <<"g", 3>>

\* copies of three messages of origin "c" (two of the first, with different ttl)
\* and a copy of the first message the node itself injects, with their senders
EnvGossip ==
    {<<"d", EnvMsg("GOSSIP", G1, "uc", "c", 2, [topic |-> "news", data |-> "x"])>>,
     <<"c", EnvMsg("GOSSIP", G1, "uc", "c", 1, [topic |-> "news", data |-> "x"])>>,
     <<"b", EnvMsg("GOSSIP", G2, "uc", "c", 0, [topic |-> "news", data |-> "y"])>>,
     <<"b", EnvMsg("GOSSIP", G3, "uc", "c", -1, [topic |-> "news", data |-> "z"])>>,
     <<"c", EnvMsg("GOSSIP", <<"ua", 0>>, "ua", "a", 0, [topic |-> "news", data |-> "hi"])>>}

OtherId(id) == IF id = "ub" THEN "uc" ELSE "ub"

\* HELLOs: no pow object, or a nonce with the digest of (sender_id, nonce), or a
\* nonce with a digest mined for another sender_id
EnvHello(s) ==
    LET sender_ids == IF s = "b" THEN {"ub", "uc"} ELSE {"uc"} IN
    {EnvMsg("HELLO", <<"HELLO", IdNum(id)>>, id, s, 1, [capabilities |-> "udp,json"]) :
        id \in sender_ids}
    \cup
    {EnvMsg("HELLO", <<"HELLO", IdNum(id)>>, id, s, 1,
            [capabilities |-> "udp,json", difficulty_k |-> 3, nonce |-> nonce,
             digest_hex |-> IF honest THEN sha256_hex(id, nonce)
                            ELSE sha256_hex(OtherId(id), pow_mine(OtherId(id), 3))]) :
        id \in sender_ids, nonce \in 0..MaxNonce, honest \in BOOLEAN}

PeerLists ==
    {<<>>, <<"a">>, <<"b">>, <<"c">>, <<"b", "c">>, <<"c", "b">>, <<"a", "b">>, <<"b", "b">>}

IdLists == {<<G1>>, <<G3, G2>>, <<<<"ua", 0>>>>}

EnvLiveness(s) ==
    {EnvMsg("PING", <<"PING", 0>>, NodeIdOf(s), s, 1, [ping_id |-> <<"PING", 0>>]),
     EnvMsg("PONG", <<"PONG", 0>>, NodeIdOf(s), s, 1, [reply_to |-> <<"PING", 0>>])}

EnvJoin(s) ==
    {EnvMsg("GET_PEERS", <<"GET", 0>>, NodeIdOf(s), s, 1, [max_peers |-> 20]),
     EnvMsg("BYE", <<"BYE", 0>>, NodeIdOf(s), s, 1, [none |-> 0])}
    \cup {EnvMsg("PEERS_LIST", <<"PEERS", 0>>, NodeIdOf(s), s, 1, [peers |-> l]) :
            l \in PeerLists}

EnvPull(s) ==
    {EnvMsg("IHAVE", <<"IHAVE", 0>>, NodeIdOf(s), s, 1, [max_ids |-> 32]),
     EnvMsg("IWANT", <<"IWANT", 0>>, NodeIdOf(s), s, 1, [none |-> 0])}
    \cup {EnvMsg("IHAVE", <<"IHAVE", 0>>, NodeIdOf(s), s, 1, [ids |-> l, max_ids |-> 32]) :
            l \in IdLists}
    \cup {EnvMsg("IWANT", <<"IWANT", 0>>, NodeIdOf(s), s, 1, [ids |-> l]) : l \in IdLists}

\* a datagram cut short: sscanf converts fewer than seven fields
Truncated == <<1, <<"g", 1>>, "GOSSIP">>

From(s, msgs) == {<<s, serialize_message(m)>> : m \in msgs}

\* the datagrams of the membership and admission traffic, with their senders
MemberDatagrams ==
    UNION {From(s, EnvHello(s) \cup EnvLiveness(s)) : s \in Senders}
    \cup From("b", EnvJoin("b")) \cup {<<"b", Truncated>>}

\* the datagrams of the dissemination traffic, with their senders
GossipDatagrams ==
    {<<g[1], serialize_message(g[2])>> : g \in EnvGossip}
    \cup From("b", EnvPull("b"))
    \cup From("c", {m \in EnvLiveness("c") : m.msg_type = "PING"})

\* node_bootstrap: the boot peer is added to the view, HELLO and GET_PEERS are sent
Bootstrap(c, self, clk) ==
    IF c.boot = NoAddr
    THEN [membership |-> membership_init(c.peer_limit), sent |-> <<>>]
    ELSE [membership |-> membership_add(membership_init(c.peer_limit), c.boot,
                                        current_time_ms(clk)),
          sent |-> <<send_msg([Control("HELLO", "HELLO", self, clk,
                                       node_build_hello_payload(NodeIdOf(self),
                                                                c.pow_difficulty))
                               EXCEPT !.msg_id = <<"HELLO", IdNum(NodeIdOf(self))>>],
                              c.boot),
                     send_msg(Control("GET_PEERS", "GET", self, clk, [max_peers |-> 20]),
                              c.boot)>>]

Threads == {"main", "listener", "ping", "pull"}

Duties == {"listener", "ping", "pull"}

\* node_init, node_bootstrap and node_run have returned: the socket and the
\* sink are open, the two sends of node_bootstrap are counted, the listener
\* and the ping thread are at the head of their loops, the pull thread too if
\* pull_interval > 0, and main is about to inject
Started ==
    /\ running = [n \in DOMAIN cfg |-> 1]
    /\ sockfd = [n \in DOMAIN cfg |-> "open"]
    /\ log_file = [n \in DOMAIN cfg |-> "open"]
    /\ sent_messages = [n \in DOMAIN cfg |-> Len(Bootstrap(cfg[n], n, 0).sent)]
    /\ lock = [n \in DOMAIN cfg |-> "none"]
    /\ membership_lock = [n \in DOMAIN cfg |-> "none"]
    /\ threads = [n \in DOMAIN cfg |->
                    [t \in Threads |->
                        [at |-> IF t = "main" THEN "inject"
                                ELSE IF t = "pull" /\ ~(cfg[n].pull_interval > 0)
                                THEN "unstarted" ELSE "loop",
                         todo |-> <<>>, reg |-> 0, rounds |-> 0]]]

\* the state after node_init, node_bootstrap and node_run
InitNodes(c) ==
    /\ cfg = c
    /\ membership = [n \in DOMAIN c |-> Bootstrap(c[n], n, 0).membership]
    /\ seen_ids = [n \in DOMAIN c |-> EmptySeen]
    /\ seen_count = [n \in DOMAIN c |-> 0]
    /\ gossip_store = [n \in DOMAIN c |-> EmptyStore]
    /\ gossip_store_count = [n \in DOMAIN c |-> 0]
    /\ log = [n \in DOMAIN c |-> <<>>]
    /\ ins = [n \in DOMAIN c |-> <<>>]
    /\ inj = [n \in DOMAIN c |-> NoMsg]
    /\ clock = 0
    /\ Started

InitOpen(configs) ==
    \E c \in configs :
        /\ InitNodes([n \in {"a"} |-> c])
        /\ net = {}
        /\ last = Step("node_bootstrap", "a", NoAddr, NoMsg, -1, Bootstrap(c, "a", 0).sent)

\* recvfrom returns a datagram of the outside world
EnvReceive(n, datagrams) ==
    /\ \E d \in datagrams : Listener(n, d[2], d[1])
    /\ UNCHANGED net

(***************************************************************************)
(* Spec: membership and admission.  One node in the open world receives    *)
(* HELLO, GET_PEERS, PEERS_LIST, PING, PONG, undecodable and unknown       *)
(* datagrams, while its ping thread runs and the clock advances.           *)
(***************************************************************************)
\* the command lines explored: -f -t -l -q -x -k and -b
Configs ==
    {Config(1, 1, MAX_PEERS + 1, 0, 1, 0, "b"),
     Config(2, 0, MAX_PEERS, 0, 2, 3, NoAddr),
     Config(0, 1, 1, 0, 2, 3, "c")}

Init == InitOpen(Configs)

Next ==
    \/ \E n \in Nodes : EnvReceive(n, MemberDatagrams)
    \/ \E n \in Nodes : PingRound(n) /\ UNCHANGED net
    \/ Tick

Spec == Init /\ [][Next]_vars

(***************************************************************************)
(* GossipSpec: dissemination.  One node in the open world receives GOSSIP, *)
(* IHAVE, IWANT and the PINGs and PONGs that fill its view, while its pull *)
(* thread runs and its main thread injects messages.                       *)
(***************************************************************************)
GossipConfigs ==
    {Config(1, 1, MAX_PEERS, 1, 1, 0, "b"),
     Config(2, 0, MAX_PEERS, 1, 2, 0, NoAddr),
     Config(0, 2, 1, 1, 2, 0, "c")}

GossipInit == InitOpen(GossipConfigs)

GossipNext ==
    \/ \E n \in Nodes : EnvReceive(n, GossipDatagrams)
    \/ \E n \in Nodes : PullRound(n) /\ UNCHANGED net
    \/ \E n \in Nodes : InjectMark(n) /\ UNCHANGED net
    \/ \E n \in Nodes : InjectStoreRelay(n) /\ UNCHANGED net

GossipSpec == GossipInit /\ [][GossipNext]_vars

(***************************************************************************)
(* NetSpec: two nodes and the datagrams between them.  Node "b" bootstraps *)
(* to node "a"; both relay with ttl 0, so that nothing is pushed, and both *)
(* run the pull thread.  The main thread of "a" injects once.  The window  *)
(* is shorter than peer_timeout: the clock stands still and the ping       *)
(* thread, which would only refresh last_seen, is left out.  No datagram   *)
(* is lost: every datagram in flight is eventually received, and every     *)
(* pull thread keeps running its rounds.                                   *)
(***************************************************************************)
NetConfigs ==
    {[a |-> Config(fa, 0, MAX_PEERS, 1, ma, 0, NoAddr),
      b |-> Config(1, 0, MAX_PEERS, 1, 1, 0, "a")] : fa \in {0, 1}, ma \in {1, 2}}

NetInit ==
    \E c \in NetConfigs :
        /\ InitNodes(c)
        /\ net = ToNet("b", Bootstrap(c["b"], "b", 0).sent)
        /\ last = Step("node_bootstrap", "b", NoAddr, NoMsg, -1,
                       Bootstrap(c["b"], "b", 0).sent)

\* recvfrom returns a datagram of the given msg_type that is in flight
NetReceive(n, type) ==
    \E d \in net :
        /\ d.to = n
        /\ d.bytes[3] = type
        /\ Listener(n, d.bytes, d.from)
        /\ net' = (net \ {d}) \cup ToNet(n, last'.sent)

NetPull(n) == PullRound(n) /\ net' = net \cup ToNet(n, last'.sent)

\* the one message given with -m
NetInjectMark(n) == ins[n] = <<>> /\ InjectMark(n) /\ UNCHANGED net

NetInjectStoreRelay(n) == InjectStoreRelay(n) /\ net' = net \cup ToNet(n, last'.sent)

NetNext ==
    \/ \E n \in Nodes, type \in KnownTypes : NetReceive(n, type)
    \/ \E n \in Nodes : NetPull(n)
    \/ NetInjectMark("a")
    \/ NetInjectStoreRelay("a")

NetFairness ==
    /\ \A n \in {"a", "b"}, type \in KnownTypes : WF_vars(NetReceive(n, type))
    /\ \A n \in {"a", "b"} : WF_vars(NetPull(n))

NetSpec == NetInit /\ [][NetNext]_vars /\ NetFairness

(***************************************************************************)
(* PushSpec: push over a closed network without loss.  The nodes are either *)
(* a fully connected triangle "a", "b", "c" with fanout 2, or a chain      *)
(* "a" -> "b" -> "c" -> "d" with fanout 1, in which every node has its     *)
(* successor in its view (and, in the second form of the chain, also its   *)
(* predecessor, which the HELLO of a bootstrap adds).  Nothing is pulled;  *)
(* the main thread of "a" injects the one message given with -m.           *)
(***************************************************************************)
\* the view after the given peers were added at start-up
RECURSIVE ViewOf(_, _)
ViewOf(limit, peers) ==
    IF peers = <<>> THEN membership_init(limit)
    ELSE membership_add(ViewOf(limit, SubSeq(peers, 1, Len(peers) - 1)),
                        peers[Len(peers)], 0)

Triangle ==
    [a |-> <<"b", "c">>, b |-> <<"a", "c">>, c |-> <<"b", "a">>]

Chain ==
    [a |-> <<"b">>, b |-> <<"c">>, c |-> <<"d">>, d |-> <<>>]

ChainBack ==
    [a |-> <<"b">>, b |-> <<"c", "a">>, c |-> <<"d", "b">>, d |-> <<"c">>]

\* the values of -t explored
PushTtls == {0, 1, 2, 3, 4, 5}

PushInit ==
    \E topology \in {Triangle, Chain, ChainBack}, ttl \in PushTtls :
        LET fanout == IF topology = Triangle THEN 2 ELSE 1
            c == [n \in DOMAIN topology |->
                     Config(fanout, ttl, MAX_PEERS, 0, 1, 0, NoAddr)] IN
        /\ cfg = c
        /\ membership = [n \in DOMAIN c |-> ViewOf(c[n].peer_limit, topology[n])]
        /\ seen_ids = [n \in DOMAIN c |-> EmptySeen]
        /\ seen_count = [n \in DOMAIN c |-> 0]
        /\ gossip_store = [n \in DOMAIN c |-> EmptyStore]
        /\ gossip_store_count = [n \in DOMAIN c |-> 0]
        /\ log = [n \in DOMAIN c |-> <<>>]
        /\ ins = [n \in DOMAIN c |-> <<>>]
        /\ inj = [n \in DOMAIN c |-> NoMsg]
        /\ clock = 0
        /\ Started
        /\ net = {}
        /\ last = Step("node_bootstrap", "a", NoAddr, NoMsg, -1, <<>>)

PushNext ==
    \/ \E n \in Nodes : NetReceive(n, "GOSSIP")
    \/ NetInjectMark("a")
    \/ NetInjectStoreRelay("a")

PushFairness == \A n \in Addrs : WF_vars(NetReceive(n, "GOSSIP"))

PushSpec == PushInit /\ [][PushNext]_vars /\ PushFairness

(***************************************************************************)
(* FrameSpec: the node of Spec while the clock advances.  PINGs and PONGs  *)
(* fill and refresh its view; GET_PEERS, GOSSIP, IHAVE, IWANT, undecodable *)
(* and unknown datagrams arrive from peers of the view and from strangers. *)
(***************************************************************************)
FrameDatagrams ==
    UNION {From(s, EnvLiveness(s)) : s \in Senders}
    \cup From("b", {m \in EnvJoin("b") : m.msg_type # "PEERS_LIST"})
    \cup {<<"b", Truncated>>}
    \cup {<<"c", serialize_message(EnvMsg("GOSSIP", G1, "uc", "c", 1,
                                          [topic |-> "news", data |-> "x"]))>>}
    \cup From("b", {EnvMsg("IHAVE", <<"IHAVE", 0>>, "ub", "b", 1,
                           [ids |-> <<G1, G2>>, max_ids |-> 32]),
                    EnvMsg("IWANT", <<"IWANT", 0>>, "ub", "b", 1, [ids |-> <<G1>>])})

FrameNext ==
    \/ \E n \in Nodes : EnvReceive(n, FrameDatagrams)
    \/ Tick

FrameSpec == Init /\ [][FrameNext]_vars

(***************************************************************************)
(* WireSpec: two nodes that know each other, push and pull together.  The  *)
(* main thread of "a" injects one message with ttl 1 or 2; both pull       *)
(* threads run.  net keeps every datagram that was handed to sendto: a     *)
(* datagram may arrive late and more than once, and what has been          *)
(* transmitted stays on record.                                            *)
(***************************************************************************)
WireInit ==
    \E ttl \in {1, 2}, x \in {1, 2} :
        LET c == [n \in {"a", "b"} |-> Config(1, ttl, MAX_PEERS, 1, x, 0, NoAddr)] IN
        /\ cfg = c
        /\ membership = [a |-> ViewOf(MAX_PEERS, <<"b">>), b |-> ViewOf(MAX_PEERS, <<"a">>)]
        /\ seen_ids = [n \in DOMAIN c |-> EmptySeen]
        /\ seen_count = [n \in DOMAIN c |-> 0]
        /\ gossip_store = [n \in DOMAIN c |-> EmptyStore]
        /\ gossip_store_count = [n \in DOMAIN c |-> 0]
        /\ log = [n \in DOMAIN c |-> <<>>]
        /\ ins = [n \in DOMAIN c |-> <<>>]
        /\ inj = [n \in DOMAIN c |-> NoMsg]
        /\ clock = 0
        /\ Started
        /\ net = {}
        /\ last = Step("node_bootstrap", "a", NoAddr, NoMsg, -1, <<>>)

\* recvfrom returns a datagram that was sent to n
WireReceive(n) ==
    \E d \in net :
        /\ d.to = n
        /\ Listener(n, d.bytes, d.from)
        /\ net' = net \cup ToNet(n, last'.sent)

WireNext ==
    \/ \E n \in Nodes : WireReceive(n)
    \/ \E n \in Nodes : NetPull(n)
    \/ NetInjectMark("a")
    \/ NetInjectStoreRelay("a")

WireSpec == WireInit /\ [][WireNext]_vars

(***************************************************************************)
(* PullSpec: the pull thread.  One node in the open world receives GOSSIP  *)
(* and injects messages, so that its seen-set fills and wraps, while its   *)
(* pull thread, if node_run has started it, runs its rounds.  -x is below, *)
(* at and above the size of the ring.                                      *)
(***************************************************************************)
PullConfigs ==
    {Config(1, 0, MAX_PEERS, 1, x, 0, "b") : x \in {1, MAX_SEEN_MSGS, MAX_SEEN_MSGS + 1}}
    \cup {Config(1, 0, MAX_PEERS, 0, MAX_SEEN_MSGS, 0, "b")}

PullInit == InitOpen(PullConfigs)

PullNext ==
    \/ \E n \in Nodes : EnvReceive(n, {<<g[1], serialize_message(g[2])>> : g \in EnvGossip})
    \/ \E n \in Nodes : PullRound(n) /\ UNCHANGED net
    \/ \E n \in Nodes : InjectMark(n) /\ UNCHANGED net
    \/ \E n \in Nodes : InjectStoreRelay(n) /\ UNCHANGED net

PullSpec == PullInit /\ [][PullNext]_vars

(***************************************************************************)
(* ViewSpec: the membership view by itself.  Starting from the empty view  *)
(* of membership_init, addresses are added while the clock advances, and   *)
(* samples are drawn with any count and any exclude.                       *)
(***************************************************************************)
\* the values of -l explored
ViewLimits == {0, 1, MAX_PEERS, MAX_PEERS + 1}

\* the counts a caller asks for
SampleCounts == -1..(MAX_PEERS + 1)

ViewInit ==
    \E limit \in ViewLimits :
        /\ InitNodes([n \in {"a"} |-> Config(1, 1, limit, 0, 1, 0, NoAddr)])
        /\ net = {}
        /\ last = Step("membership_init", "a", NoAddr, NoMsg, -1, <<>>)

\* membership_add(m, addr); the step records the address and the value returned
ViewAdd(n) ==
    /\ \E addr \in Senders \cup {"d"} :
         /\ membership' = [membership EXCEPT ![n] =
                              membership_add(@, addr, current_time_ms(clock))]
         /\ last' = Step("membership_add", n, addr, NoMsg,
                         membership_add_ret(membership[n], addr), <<>>)
    /\ UNCHANGED <<duties, cfg, seen_ids, seen_count, gossip_store, gossip_store_count,
                   log, ins, inj, net, clock>>

\* membership_get_random(m, targets, count, exclude); the step records exclude,
\* count and the targets filled
ViewSample(n) ==
    /\ \E count \in SampleCounts, exclude \in {NoAddr, "b", "d"} :
         \E targets \in membership_get_random(membership[n], count, exclude) :
            last' = Step("membership_get_random", n, exclude, NoMsg, count,
                         [i \in 1..Len(targets) |-> [to |-> targets[i], bytes |-> <<>>]])
    /\ UNCHANGED <<duties, cfg, membership, seen_ids, seen_count, gossip_store,
                   gossip_store_count, log, ins, inj, net, clock>>

ViewNext ==
    \/ ViewAdd("a")
    \/ ViewSample("a")
    \/ Tick

ViewSpec == ViewInit /\ [][ViewNext]_vars

(***************************************************************************)
(* ThreadSpec: the four threads of one node, statement by statement.  A    *)
(* thread is at a position of its loop (at) with the statements it still   *)
(* has to execute before it is back there (todo).  A statement is a lock   *)
(* or unlock of node->lock, a lock or unlock of membership.lock (mlock,    *)
(* munlock), an access to the seen-set or to the store, the load and the   *)
(* store that sent_messages++ compiles to (the value read is kept in reg), *)
(* a log_event, or a statement of node_cleanup.  Statements that touch no  *)
(* state shared between the threads are left out, and so is sendto.  What  *)
(* the statements do to the seen-set, the store and the view is the        *)
(* subject of the handler-level actions and is left alone here.            *)
(***************************************************************************)
MaxDatagrams == 1

MaxRounds == 1

MaxTargets == 1

membership_add_ops == <<"mlock", "munlock">>

membership_get_random_ops == <<"mlock", "munlock">>

membership_remove_expired_ops == <<"mlock", "munlock">>

\* sent_messages++ and log_event after the sendto: no lock is taken
send_msg_ops == <<"load", "inc", "log_event">>

RECURSIVE Sends(_)
Sends(count) == IF count = 0 THEN <<>> ELSE send_msg_ops \o Sends(count - 1)

\* ttl <= 0 returns at once (count is -1 then); else one send_msg per target
relay_gossip_ops(count) ==
    IF count < 0 THEN <<"relay_gossip">>
    ELSE <<"relay_gossip">> \o membership_get_random_ops \o Sends(count)

handle_get_peers_ops == <<"mlock", "munlock">> \o send_msg_ops

\* a HELLO that fails the PoW check returns before membership_add
handle_hello_ops(admitted) ==
    IF admitted THEN membership_add_ops \o handle_get_peers_ops ELSE <<>>

handle_peers_list_ops == membership_add_ops

\* faulty variant of handle_gossip_ops: relay_gossip is called before the unlock
handle_gossip_ops_relay_locked(new, count) ==
    IF new THEN <<"lock", "seen", "log_event", "store">> \o relay_gossip_ops(count)
                \o <<"unlock">>
    ELSE <<"lock", "seen", "unlock">>

handle_gossip_ops(new, count) ==
    IF new THEN <<"lock", "seen", "log_event", "store", "unlock">> \o relay_gossip_ops(count)
    ELSE <<"lock", "seen", "unlock">>

handle_ping_ops == membership_add_ops \o send_msg_ops

handle_pong_ops == membership_add_ops

\* one advertised id is looked up; an IWANT is sent if it is missing
handle_ihave_ops(missing) ==
    <<"lock", "seen", "unlock">> \o (IF missing THEN send_msg_ops ELSE <<>>)

\* one requested id is looked up; the stored bytes are sent under node->lock
handle_iwant_ops(found) ==
    <<"lock", "store">> \o (IF found THEN <<"load", "inc", "log_event">> ELSE <<>>)
    \o <<"unlock">>

\* what the listener executes for one datagram (nothing for a dropped one)
HandlerOps ==
    {handle_hello_ops(admitted) : admitted \in BOOLEAN}
    \cup {handle_get_peers_ops, handle_peers_list_ops, handle_ping_ops, handle_pong_ops, <<>>}
    \cup {handle_gossip_ops(new, count) : new \in BOOLEAN, count \in -1..MaxTargets}
    \cup {handle_ihave_ops(missing) : missing \in BOOLEAN}
    \cup {handle_iwant_ops(found) : found \in BOOLEAN}

ping_round_ops(count) ==
    membership_get_random_ops \o Sends(count) \o membership_remove_expired_ops

\* collected = 0 continues the loop before the targets are chosen (count is -1)
pull_round_ops(count) ==
    <<"lock", "seen", "unlock">>
    \o (IF count < 0 THEN <<>> ELSE membership_get_random_ops \o Sends(count))

\* -m: mark under node->lock, store under node->lock, SEND record, relay
inject_ops(count) ==
    <<"lock", "seen", "unlock", "lock", "store", "unlock", "log_event">>
    \o relay_gossip_ops(count)

\* the interactive command "peers"
peers_ops == <<"mlock", "munlock">>

\* faulty variant of node_cleanup_ops: the sink is closed before the joins
node_cleanup_ops_close_first(pull_interval) ==
    <<"clear_running", "close", "fclose", "join_listener", "join_ping">>
    \o (IF pull_interval > 0 THEN <<"join_pull">> ELSE <<>>)
    \o <<"destroy">>

node_cleanup_ops(pull_interval) ==
    <<"clear_running", "close", "join_listener", "join_ping">>
    \o (IF pull_interval > 0 THEN <<"join_pull">> ELSE <<>>)
    \o <<"destroy", "fclose">>

NextOp(n, t) == IF threads[n][t].todo = <<>> THEN "none" ELSE Head(threads[n][t].todo)

Joined(op) ==
    CASE op = "join_listener" -> "listener"
      [] op = "join_ping" -> "ping"
      [] op = "join_pull" -> "pull"
      [] OTHER -> "none"

\* thread t of node n executes its next statement
Exec(n, t) ==
    LET op == NextOp(n, t) IN
    /\ op # "none"
    /\ op = "lock" => lock[n] = "none"
    /\ op = "mlock" => membership_lock[n] = "none"
    /\ Joined(op) # "none" => threads[n][Joined(op)].at = "done"
    /\ lock' = [lock EXCEPT ![n] =
                   IF op = "lock" THEN t ELSE IF op = "unlock" THEN "none" ELSE @]
    /\ membership_lock' = [membership_lock EXCEPT ![n] =
                   IF op = "mlock" THEN t ELSE IF op = "munlock" THEN "none" ELSE @]
    /\ running' = [running EXCEPT ![n] = IF op = "clear_running" THEN 0 ELSE @]
    /\ sockfd' = [sockfd EXCEPT ![n] = IF op = "close" THEN "closed" ELSE @]
    /\ log_file' = [log_file EXCEPT ![n] = IF op = "fclose" THEN "closed" ELSE @]
    /\ sent_messages' = [sent_messages EXCEPT ![n] =
                   IF op = "inc" THEN threads[n][t].reg + 1 ELSE @]
    /\ threads' = [threads EXCEPT ![n][t] =
                   [@ EXCEPT !.todo = Tail(@),
                             !.reg = IF op = "load" THEN sent_messages[n] ELSE 0]]
    /\ UNCHANGED data

\* while (node->running)
Loop(n, t) ==
    /\ t \in Duties
    /\ threads[n][t].at = "loop" /\ threads[n][t].todo = <<>>
    /\ threads' = [threads EXCEPT ![n][t].at =
                      IF running[n] = 0 THEN "done"
                      ELSE IF t = "listener" THEN "recvfrom" ELSE "sleep"]
    /\ UNCHANGED <<data, running, sockfd, log_file, sent_messages, lock, membership_lock>>

\* recvfrom returns a datagram, which is handled, or it returns -1: after
\* SO_RCVTIMEO, or at once when the socket is closed
Recvfrom(n) ==
    /\ threads[n]["listener"].at = "recvfrom"
    /\ \/ /\ sockfd[n] = "open"
          /\ threads[n]["listener"].rounds < MaxDatagrams
          /\ \E ops \in HandlerOps :
                threads' = [threads EXCEPT ![n]["listener"] =
                               [@ EXCEPT !.at = "loop", !.todo = ops, !.rounds = @ + 1]]
       \/ threads' = [threads EXCEPT ![n]["listener"].at = "loop"]
    /\ UNCHANGED <<data, running, sockfd, log_file, sent_messages, lock, membership_lock>>

\* sleep(interval) returns
Sleep(n, t) ==
    /\ t \in {"ping", "pull"}
    /\ threads[n][t].at = "sleep"
    /\ running[n] = 1 => threads[n][t].rounds < MaxRounds
    /\ threads' = [threads EXCEPT ![n][t].at = "check"]
    /\ UNCHANGED <<data, running, sockfd, log_file, sent_messages, lock, membership_lock>>

\* if (!node->running) break; else the round
Round(n, t) ==
    /\ t \in {"ping", "pull"}
    /\ threads[n][t].at = "check"
    /\ IF running[n] = 0
       THEN threads' = [threads EXCEPT ![n][t].at = "done"]
       ELSE \E count \in -1..MaxTargets :
               /\ t = "ping" => count >= 0
               /\ threads' = [threads EXCEPT ![n][t] =
                      [@ EXCEPT !.at = "loop", !.rounds = @ + 1,
                                !.todo = IF t = "ping" THEN ping_round_ops(count)
                                         ELSE pull_round_ops(count)]]
    /\ UNCHANGED <<data, running, sockfd, log_file, sent_messages, lock, membership_lock>>

\* what main executes before it waits: the injection of the message of -m,
\* the command "peers", or nothing
MainOps == {inject_ops(count) : count \in -1..MaxTargets} \cup {peers_ops, <<>>}

\* main after node_run, with one of the given inputs
MainInput(n, inputs) ==
    /\ threads[n]["main"].at = "inject" /\ threads[n]["main"].todo = <<>>
    /\ \E ops \in inputs :
          threads' = [threads EXCEPT ![n]["main"] = [@ EXCEPT !.at = "wait", !.todo = ops]]
    /\ UNCHANGED <<data, running, sockfd, log_file, sent_messages, lock, membership_lock>>

\* main leaves its loop (quit, end of input, or running found 0) and calls
\* node_cleanup
MainQuit(n) ==
    /\ threads[n]["main"].at = "wait" /\ threads[n]["main"].todo = <<>>
    /\ threads' = [threads EXCEPT ![n]["main"] =
                      [@ EXCEPT !.at = "node_cleanup",
                                !.todo = node_cleanup_ops(cfg[n].pull_interval)]]
    /\ UNCHANGED <<data, running, sockfd, log_file, sent_messages, lock, membership_lock>>

\* SIGINT or SIGTERM
handle_signal(n) ==
    /\ running[n] = 1
    /\ running' = [running EXCEPT ![n] = 0]
    /\ UNCHANGED <<data, sockfd, log_file, sent_messages, lock, membership_lock, threads>>

ThreadConfigs ==
    {Config(1, 1, MAX_PEERS, 1, 1, 0, "b"),
     Config(1, 1, MAX_PEERS, 0, 1, 0, NoAddr)}

ThreadInit == InitOpen(ThreadConfigs)

ThreadNext ==
    \/ \E n \in Nodes : \E t \in Threads : Exec(n, t)
    \/ \E n \in Nodes : \E t \in Duties : Loop(n, t)
    \/ \E n \in Nodes : Recvfrom(n)
    \/ \E n \in Nodes : \E t \in {"ping", "pull"} : Sleep(n, t)
    \/ \E n \in Nodes : \E t \in {"ping", "pull"} : Round(n, t)
    \/ \E n \in Nodes : MainInput(n, MainOps)
    \/ \E n \in Nodes : MainQuit(n)
    \/ \E n \in Nodes : handle_signal(n)

ThreadSpec == ThreadInit /\ [][ThreadNext]_vars

(***************************************************************************)
(* ShutdownSpec: the threads of a node that is started without -m and is   *)
(* given no command before it is told to quit.  Every duty that can take a *)
(* step eventually takes one, and so does main inside node_cleanup; main   *)
(* is not obliged to leave its wait.                                       *)
(***************************************************************************)
DutyStep(n, t) ==
    \/ Exec(n, t)
    \/ Loop(n, t)
    \/ t = "listener" /\ Recvfrom(n)
    \/ Sleep(n, t)
    \/ Round(n, t)

ShutdownNext ==
    \/ \E n \in Nodes : Exec(n, "main")
    \/ \E n \in Nodes : \E t \in Duties : DutyStep(n, t)
    \/ \E n \in Nodes : MainInput(n, {<<>>})
    \/ \E n \in Nodes : MainQuit(n)
    \/ \E n \in Nodes : handle_signal(n)

ShutdownFairness ==
    /\ WF_vars(Exec("a", "main"))
    /\ \A t \in Duties : WF_vars(DutyStep("a", t))

ShutdownSpec == ThreadInit /\ [][ShutdownNext]_vars /\ ShutdownFairness

(***************************************************************************)
(* DropSpec: the node of FrameSpec, which also receives an empty datagram  *)
(* and datagrams that end after any of the seven scalar fields.            *)
(***************************************************************************)
\* a GOSSIP datagram cut after k of its fields, k = 0..7 (after the seventh
\* the key "payload": is missing)
Malformed ==
    {SubSeq(serialize_message(EnvMsg("GOSSIP", G2, "uc", "c", 1,
                                     [topic |-> "news", data |-> "y"])), 1, k) : k \in 0..7}

DropDatagrams == FrameDatagrams \cup (Senders \X Malformed)

DropNext ==
    \/ \E n \in Nodes : EnvReceive(n, DropDatagrams)
    \/ Tick

DropSpec == Init /\ [][DropNext]_vars

(***************************************************************************)
(* DetectSpec: failure detection.  Node "a" has bootstrapped to "b"; the   *)
(* peers "b" and "c" have stopped, and the datagrams they sent before are  *)
(* still in flight.  The ping thread of "a" sleeps ping_interval (one      *)
(* second) and runs its round; time passes in these sleeps.  A datagram in *)
(* flight arrives early enough for the horizon MaxClock to hold the rounds *)
(* that follow it.                                                         *)
(***************************************************************************)
\* what "b" and "c" sent to n before they stopped
InFlight(n) ==
    {[to |-> n, from |-> d[1], bytes |-> d[2]] :
        d \in From("b", EnvLiveness("b"))
               \cup From("c", {m \in EnvLiveness("c") : m.msg_type = "PING"})
               \cup From("c", {EnvMsg("PEERS_LIST", <<"PEERS", 0>>, "uc", "c", 1,
                                      [peers |-> l]) : l \in {<<"b">>, <<"c", "b">>}})}

DetectConfigs ==
    {Config(2, 1, MAX_PEERS, 0, 1, 0, "b"), Config(0, 1, 1, 0, 1, 0, "b")}

DetectInit ==
    \E c \in DetectConfigs :
        /\ InitNodes([n \in {"a"} |-> c])
        /\ net = InFlight("a")
        /\ last = Step("node_bootstrap", "a", NoAddr, NoMsg, -1, Bootstrap(c, "a", 0).sent)

DetectReceive(n, type) ==
    /\ clock + cfg[n].peer_timeout < MaxClock
    /\ NetReceive(n, type)

\* one iteration of ping_thread_func: sleep(ping_interval), PING a sample, expire
PingIteration(n) ==
    /\ clock < MaxClock
    /\ clock' = clock + 1
    /\ \E targets \in membership_get_random(membership[n], cfg[n].fanout, NoAddr) :
         last' = Step("ping_round", n, NoAddr, NoMsg, -1,
                      [i \in 1..Len(targets) |->
                          send_msg(Control("PING", "PING", n, clock',
                                           [ping_id |-> <<"PING", current_time_ms(clock')>>]),
                                   targets[i])])
    /\ membership' = [membership EXCEPT ![n] =
                         membership_remove_expired(@, current_time_ms(clock'),
                                                   cfg[n].peer_timeout)]
    /\ net' = net \cup ToNet(n, last'.sent)
    /\ UNCHANGED <<duties, cfg, seen_ids, seen_count, gossip_store, gossip_store_count,
                   log, ins, inj>>

DetectNext ==
    \/ \E n \in Nodes, type \in {"PING", "PONG", "PEERS_LIST"} : DetectReceive(n, type)
    \/ \E n \in Nodes : PingIteration(n)

DetectFairness == WF_vars(PingIteration("a"))

DetectSpec == DetectInit /\ [][DetectNext]_vars /\ DetectFairness

(***************************************************************************)
(* CodecSpec: the codec on text.  A sender fills a gossip_msg_t within the *)
(* sizes of its fields and send_msg serializes it into its buffer; the     *)
(* listener of the receiver deserializes the datagram.  What sendto reads  *)
(* past the end of the buffer when snprintf has truncated lies behind the  *)
(* NUL and is not part of the string the receiver parses.                  *)
(***************************************************************************)
\* the strings over an alphabet that fit a char array of the given size
Strings(alphabet, size) == UNION {[1..k -> alphabet] : k \in 0..(size - 1)}

Envelopes ==
    [version : {1},
     msg_id : Strings({"g", Quote}, ID_LEN),
     msg_type : {<<"G">>},
     sender_id : {<<"u">>},
     sender_addr : {<<>>, <<"h">>},
     timestamp_ms : {0},
     ttl : {-1, 0, 5},
     payload : Strings({"{", "}", " "}, MSG_BUF_SIZE)]

\* send_msg: the envelope is serialized into buf[MAX_SERIALIZED_LEN]
SendText(n) ==
    /\ \E e \in Envelopes :
         /\ inj' = [inj EXCEPT ![n] = e]
         /\ last' = Step("serialize_message", n, NoAddr, e,
                         serialize_message_text(e, MAX_SERIALIZED_LEN).len,
                         <<[to |-> n,
                            bytes |-> serialize_message_text(e, MAX_SERIALIZED_LEN).text]>>)
    /\ UNCHANGED <<duties, cfg, membership, seen_ids, seen_count, gossip_store,
                   gossip_store_count, log, ins, net, clock>>

\* listener_thread_func: the datagram is deserialized
ListenText(n) ==
    /\ last.op = "serialize_message"
    /\ LET r == deserialize_message_text(last.sent[1].bytes) IN
       last' = Step("deserialize_message", n, NoAddr, r.msg, r.ret, last.sent)
    /\ UNCHANGED <<duties, cfg, membership, seen_ids, seen_count, gossip_store,
                   gossip_store_count, log, ins, inj, net, clock>>

CodecInit == InitOpen({Config(1, 1, MAX_PEERS, 0, 1, 0, NoAddr)})

CodecNext ==
    \/ SendText("a")
    \/ ListenText("a")

CodecSpec == CodecInit /\ [][CodecNext]_vars

(***************************************************************************)
(* Properties                                                              *)
(***************************************************************************)
\* the fields of a datagram on the wire
WireType(bytes) == bytes[3]

WireTtl(bytes) == bytes[7]

WirePayload(bytes) == bytes[8]

ViewAddrs(n) == {membership[n].list[i].addr : i \in 1..Len(membership[n].list)}

Seen(n, msg_id) == seen_contains(seen_ids[n], seen_count[n], msg_id)

Stored(n, msg_id) == find_stored(gossip_store[n], gossip_store_count[n], msg_id) >= 0

Records(n, event, msg_id) ==
    {i \in 1..Len(log[n]) : log[n][i] = <<event, "GOSSIP", msg_id>>}

\* the number of leading '0' characters of a digest
LeadingZeros(hex) ==
    CHOOSE k \in 0..Len(hex) :
        /\ \A i \in 1..k : hex[i] = 0
        /\ k = Len(hex) \/ hex[k + 1] # 0

(***************************************************************************)
(* C1, dedup.  As stated (at most one execution of the new branch per      *)
(* msg_id and node, over any sequence of arrivals) the property is         *)
(* C1_DedupOnce; the seen-set is a ring of MAX_SEEN_MSGS slots, and it     *)
(* fails once that many newer ids have overwritten the id.                 *)
(***************************************************************************)
\* C1 as stated: no node logs two RECEIVE records (one per execution of
\* handle_gossip's new branch) for the same msg_id.
C1_DedupOnce ==
    \A n \in Nodes : \A i, j \in 1..Len(log[n]) :
        (i < j /\ log[n][i][1] = "RECEIVE" /\ log[n][j][1] = "RECEIVE")
            => log[n][i][3] # log[n][j][3]

\* C1 as amended: on every node, two insertions of the same msg_id into the
\* seen-set (by handle_gossip's new branch or by a local injection) are
\* separated by at least MAX_SEEN_MSGS insertions of other ids; an id that is
\* still in the ring is never processed as new.
C1_DedupWithinWindow ==
    \A n \in Nodes : \A i, j \in 1..Len(ins[n]) :
        (i < j /\ ins[n][i] = ins[n][j]) => j - i > MAX_SEEN_MSGS

\* an id came back after its eviction and was processed as new, and the copy
\* that followed it was dropped as a duplicate
C1_Witness ==
    /\ \E i, j \in 1..Len(ins["a"]) : i < j /\ ins["a"][i] = ins["a"][j]
    /\ last.op = "handle_gossip" /\ last.seen = 1

(***************************************************************************)
(* C2, TTL monotonicity.                                                   *)
(***************************************************************************)
\* C2: every GOSSIP copy a relay sends carries the ttl of the envelope that
\* produced it minus one, a relay of an envelope with ttl <= 0 sends nothing,
\* and no datagram a node sends carries a ttl below 0.
C2_TtlMonotone ==
    /\ last.op \in {"handle_gossip", "inject"} =>
          /\ \A i \in 1..Len(last.sent) : WireTtl(last.sent[i].bytes) = last.msg.ttl - 1
          /\ last.msg.ttl <= 0 => last.sent = <<>>
    /\ \A i \in 1..Len(last.sent) : WireTtl(last.sent[i].bytes) >= 0

(***************************************************************************)
(* C3, fan-out bound (for a fanout >= 0).                                  *)
(***************************************************************************)
\* C3: a handle_gossip call sends at most fanout datagrams, all of them GOSSIP,
\* and none when the message is a duplicate or its ttl is <= 0.
C3_FanoutBound ==
    last.op = "handle_gossip" =>
        /\ Len(last.sent) <= cfg[last.node].fanout
        /\ \A i \in 1..Len(last.sent) : WireType(last.sent[i].bytes) = "GOSSIP"
        /\ (last.seen = 1 \/ last.msg.ttl <= 0) => last.sent = <<>>

\* a new message from a sender outside a view of two peers, relayed to one
C3_Witness ==
    /\ last.op = "handle_gossip" /\ last.seen = 0
    /\ Len(membership[last.node].list) = 2
    /\ last.from \notin ViewAddrs(last.node)
    /\ cfg[last.node].fanout = 1
    /\ Len(last.sent) = 1

(***************************************************************************)
(* C4, membership bound (for a peer_limit >= 0).                           *)
(***************************************************************************)
\* C4: in every reachable state the view holds at most peer_limit records, and
\* at most MAX_PEERS.
C4_MembershipBound ==
    \A n \in Nodes :
        /\ Len(membership[n].list) <= cfg[n].peer_limit
        /\ Len(membership[n].list) <= MAX_PEERS
        /\ membership[n].limit <= MAX_PEERS

\* a PING from an address outside a full view whose peer_limit exceeds MAX_PEERS
C4_Witness ==
    /\ last.op = "handle_ping"
    /\ last.from \notin ViewAddrs(last.node)
    /\ Len(membership[last.node].list) = MAX_PEERS
    /\ cfg[last.node].peer_limit > MAX_PEERS

(***************************************************************************)
(* C5, sample uniqueness.                                                  *)
(***************************************************************************)
\* C5: for every reachable view, every k and every exclude, every outcome of
\* membership_get_random is a list of pairwise distinct addresses of the view,
\* none of them equal to exclude.
C5_SampleUnique ==
    \A n \in Nodes, k \in -1..(MAX_PEERS + 1), exclude \in Addrs \cup {NoAddr} :
        \A targets \in membership_get_random(membership[n], k, exclude) :
            /\ \A i, j \in 1..Len(targets) : i # j => targets[i] # targets[j]
            /\ \A i \in 1..Len(targets) :
                  targets[i] \in ViewAddrs(n) /\ targets[i] # exclude

\* a ping round whose sample took both peers of the view
C5_Witness ==
    /\ last.op = "ping_round"
    /\ Len(last.sent) = 2
    /\ last.sent[1].to # last.sent[2].to

(***************************************************************************)
(* C6, pull convergence, and C7, pull repair (NetSpec).  M is the message  *)
(* node "a" injects.                                                       *)
(***************************************************************************)
M == InjectedMsg("a", 0, 0).msg_id

IHaveInFlight(from, to, msg_id) ==
    \E d \in net :
        /\ d.from = from /\ d.to = to /\ WireType(d.bytes) = "IHAVE"
        /\ \E i \in 1..Len(WirePayload(d.bytes).ids) : WirePayload(d.bytes).ids[i] = msg_id

\* C6: with push disabled, when "a" holds M in its seen-set and store, "b" has
\* not seen M and an IHAVE of "a" naming M is on its way to "b", then (the
\* IHAVE, the IWANT it causes and the reply being delivered) the seen-set of
\* "b" comes to contain M.
C6_PullConvergence ==
    (/\ cfg["a"].ttl = 0
     /\ Seen("a", M) /\ Stored("a", M) /\ ~Seen("b", M)
     /\ IHaveInFlight("a", "b", M))
        ~> Seen("b", M)

\* "b" has just processed as new the copy of M that "a" sent in reply
C6_Witness ==
    /\ last.op = "handle_gossip" /\ last.node = "b" /\ last.from = "a"
    /\ last.seen = 0 /\ last.msg.msg_id = M
    /\ Seen("b", M) /\ Stored("b", M)
    /\ Cardinality(Records("a", "SEND", M)) > 1

\* C7: when "a" runs with fanout 0 and pull_interval 1 and holds M, the two
\* nodes are peered and no datagram is lost, "b" eventually logs RECEIVE GOSSIP
\* for M and "a" logs the SEND GOSSIP of its reply (one more than the record
\* of its injection).
C7_PullRepair ==
    (/\ cfg["a"].fanout = 0 /\ cfg["a"].pull_interval = 1
     /\ Seen("a", M) /\ Stored("a", M)
     /\ "b" \in ViewAddrs("a") /\ "a" \in ViewAddrs("b"))
        ~> (/\ Records("b", "RECEIVE", M) # {}
            /\ Cardinality(Records("a", "SEND", M)) > 1)

(***************************************************************************)
(* C8, C9, C10: proof of work and HELLO admission.                         *)
(***************************************************************************)
PowDifficulties == {-1, 0, 1, 2, 3, 4, 5, DIGEST_HEX_LEN, DIGEST_HEX_LEN + 1}

\* the first K hex characters of the digest exist and are all '0'
FirstAreZero(node_id, nonce, K) ==
    \A i \in 1..K : i <= DIGEST_HEX_LEN /\ sha256_hex(node_id, nonce)[i] = 0

\* the HELLO of the last step was admitted: a PEERS_LIST went back
Admitted == last.op = "handle_hello" /\ last.sent # <<>>

\* C8: pow_check(id, nonce, K) returns 1 exactly when the first K hex
\* characters of the digest of (id, nonce) are all '0'; and a HELLO is
\* admitted exactly when PoW is off or its nonce passes this recomputation over
\* its sender_id, whatever digest_hex it carries.
C8_PowSound ==
    /\ \A id \in {"ua", "ub", "uc"}, nonce \in 0..(MaxNonce + 1), K \in PowDifficulties :
          (pow_check(id, nonce, K) = 1) <=> FirstAreZero(id, nonce, K)
    /\ last.op = "handle_hello" =>
          (Admitted <=>
              \/ cfg[last.node].pow_difficulty <= 0
              \/ /\ "nonce" \in DOMAIN last.msg.payload
                 /\ FirstAreZero(last.msg.sender_id, last.msg.payload.nonce,
                                 cfg[last.node].pow_difficulty))

\* a HELLO whose nonce passes was admitted although the digest_hex it carries
\* is not the digest of its sender_id and nonce
C8_Witness ==
    /\ Admitted
    /\ cfg[last.node].pow_difficulty = 3
    /\ "digest_hex" \in DOMAIN last.msg.payload
    /\ last.msg.payload.digest_hex #
          sha256_hex(last.msg.sender_id, last.msg.payload.nonce)

\* a step of handle_hello (the clock stands still while a handler runs)
HelloStep == last'.op = "handle_hello" /\ clock' = clock

Rejected == membership' = membership /\ last'.sent = <<>>

\* the digest_hex carried is the digest of another sender_id
OverOtherId(msg) ==
    \E id \in {"ua", "ub", "uc"} \ {msg.sender_id}, nonce \in 0..MaxNonce :
        msg.payload.digest_hex = sha256_hex(id, nonce)

\* C9 as stated: with pow_difficulty 3, a HELLO whose digest_hex begins with
\* fewer than 3 '0' characters, or was computed over a different sender_id, is
\* rejected: the view is unchanged and nothing is sent.
C9_DigestAdmission ==
    [][(/\ HelloStep
        /\ cfg[last'.node].pow_difficulty = 3
        /\ "digest_hex" \in DOMAIN last'.msg.payload
        /\ \/ LeadingZeros(last'.msg.payload.digest_hex) < 3
           \/ OverOtherId(last'.msg))
       => Rejected]_vars

\* C9 as amended: with pow_difficulty 3, a HELLO that carries no nonce, or
\* whose digest recomputed over its own sender_id and nonce begins with fewer
\* than 3 '0' characters (as when the nonce was mined for another sender_id),
\* is rejected: the view is unchanged and nothing is sent.
C9_PowAdmission ==
    [][(/\ HelloStep
        /\ cfg[last'.node].pow_difficulty = 3
        /\ \/ "nonce" \notin DOMAIN last'.msg.payload
           \/ LeadingZeros(sha256_hex(last'.msg.sender_id,
                                      last'.msg.payload.nonce)) < 3)
       => Rejected]_vars

\* a HELLO was rejected that carries a digest_hex with 3 leading '0', mined
\* for another sender_id
C9_Witness ==
    /\ last.op = "handle_hello" /\ last.sent = <<>>
    /\ cfg[last.node].pow_difficulty = 3
    /\ "digest_hex" \in DOMAIN last.msg.payload
    /\ LeadingZeros(last.msg.payload.digest_hex) >= 3
    /\ OverOtherId(last.msg)
    /\ LeadingZeros(sha256_hex(last.msg.sender_id, last.msg.payload.nonce)) < 3

\* C10: a step of handle_hello whose PoW verification fails leaves the view
\* unchanged and sends nothing; one whose verification succeeds, or with PoW
\* off, touches or adds the sender's socket address and sends exactly one
\* PEERS_LIST, to the sender.
C10_HandleHello ==
    [][HelloStep =>
        LET n == last'.node
            K == cfg[n].pow_difficulty
            fails == K > 0 /\ (\/ "nonce" \notin DOMAIN last'.msg.payload
                               \/ LeadingZeros(sha256_hex(last'.msg.sender_id,
                                                          last'.msg.payload.nonce)) < K) IN
        IF fails THEN Rejected
        ELSE /\ membership'[n] = membership_add(membership[n], last'.from,
                                                current_time_ms(clock))
             /\ Len(last'.sent) = 1
             /\ last'.sent[1].to = last'.from
             /\ WireType(last'.sent[1].bytes) = "PEERS_LIST"]_vars

\* a HELLO passed verification at difficulty 3 and its sender, new to the
\* view, is now in it
C10_Witness ==
    /\ Admitted
    /\ cfg[last.node].pow_difficulty = 3
    /\ Len(membership[last.node].list) = 2
    /\ membership[last.node].list[2].addr = last.from
    /\ WireType(last.sent[1].bytes) = "PEERS_LIST"
    /\ Len(WirePayload(last.sent[1].bytes).peers) = 2

(***************************************************************************)
(* C11, codec round trip (CodecSpec).                                      *)
(***************************************************************************)
\* C11: for every envelope within the sizes of its fields, with any payload
\* string, deserializing what serialize_message wrote succeeds and yields the
\* envelope again, field by field.
C11_RoundTrip ==
    last.op = "deserialize_message" =>
        /\ last.seen = 0
        /\ last.msg = inj[last.node]

(***************************************************************************)
(* C12, dedup under redundant push (PushSpec, the triangle).               *)
(***************************************************************************)
\* the id of the message main injects at "a"
PushId == InjectedMsg("a", 0, 0).msg_id

InTriangle == Nodes = {"a", "b", "c"} /\ cfg["a"].fanout = 2 /\ cfg["a"].ttl = 5

\* main has stored and relayed the message
Injected == inj["a"] = NoMsg /\ gossip_store_count["a"] > 0

\* C12: in the triangle with fanout 2 and ttl 5, no node other than the
\* origin ever logs a second RECEIVE for the injected msg_id, and once the
\* message is injected each of them comes to log one.
C12_DedupPush ==
    /\ [](InTriangle =>
            \A n \in {"b", "c"} : Cardinality(Records(n, "RECEIVE", PushId)) <= 1)
    /\ (InTriangle /\ Injected) ~>
            (\A n \in {"b", "c"} : Cardinality(Records(n, "RECEIVE", PushId)) = 1)

\* a redundant copy reaches a node that has logged its RECEIVE, and is dropped
C12_Witness ==
    /\ InTriangle
    /\ last.op = "handle_gossip" /\ last.seen = 1 /\ last.msg.msg_id = PushId
    /\ \A n \in {"b", "c"} : Cardinality(Records(n, "RECEIVE", PushId)) = 1

(***************************************************************************)
(* C13, push reach bounded by ttl (PushSpec, the chains).                  *)
(***************************************************************************)
InChain == Nodes = {"a", "b", "c", "d"} /\ cfg["a"].fanout = 1

\* the number of hops from "a" along the chain
Distance(n) == CASE n = "a" -> 0 [] n = "b" -> 1 [] n = "c" -> 2 [] OTHER -> 3

\* C13: in a chain with fanout 1 and a message injected at "a" with ttl T, no
\* node at a distance greater than T ever logs a RECEIVE for it, and once the
\* message is injected and no datagram is in flight every node at a distance
\* of 1..T has logged one.
C13_TtlReach ==
    InChain =>
        \A n \in Nodes \ {"a"} :
            /\ Distance(n) > cfg["a"].ttl => Records(n, "RECEIVE", PushId) = {}
            /\ (Injected /\ net = {} /\ Distance(n) <= cfg["a"].ttl)
                   => Records(n, "RECEIVE", PushId) # {}

\* ttl 2: the nodes at distance 1 and 2 have logged the RECEIVE, the node at
\* distance 3 has not, and nothing is in flight any more
C13_Witness ==
    /\ InChain /\ cfg["a"].ttl = 2
    /\ Injected /\ net = {}
    /\ Records("b", "RECEIVE", PushId) # {}
    /\ Records("c", "RECEIVE", PushId) # {}
    /\ Records("d", "RECEIVE", PushId) = {}

(***************************************************************************)
(* C14, failure detection (DetectSpec).                                    *)
(***************************************************************************)
\* the peers of the view whose last refresh is more than peer_timeout ago
Stale(n) ==
    {membership[n].list[i].addr :
        i \in {j \in 1..Len(membership[n].list) :
                 current_time_ms(clock) - membership[n].list[j].last_seen
                     > cfg[n].peer_timeout * 1000}}

\* C14: a peer that has stopped sending leaves the view: the first expire
\* round that runs more than peer_timeout after the peer's last refresh
\* removes it (no peer of the view is ever found stale after a round), and
\* every peer of the view is eventually gone from it.
C14_FailureDetection ==
    /\ [](Stale("a") = {})
    /\ \A p \in {"b", "c"} : (p \in ViewAddrs("a")) ~> (p \notin ViewAddrs("a"))

\* the round that runs peer_timeout + ping_interval after the last refresh of
\* "b" has removed it
C14_Witness ==
    /\ last.op = "ping_round"
    /\ clock = cfg["a"].peer_timeout + 1
    /\ "b" \notin ViewAddrs("a")

(***************************************************************************)
(* C15, the receiver does not add the sender (FrameSpec).                  *)
(***************************************************************************)
\* a step of the listener that handles a GOSSIP, IHAVE, IWANT or GET_PEERS
\* datagram, or drops a datagram it cannot decode or route
FrameStep ==
    /\ last'.op \in {"handle_gossip", "handle_ihave", "handle_iwant",
                     "handle_get_peers", "drop"}
    /\ clock' = clock

\* C15: handling a GOSSIP, IHAVE, IWANT or GET_PEERS datagram, an undecodable
\* datagram or a datagram of unknown kind leaves the view as it was: the same
\* members in the same slots with the same last_seen.
C15_ViewFrame == [][FrameStep => membership' = membership]_vars

\* a new GOSSIP was handled whose sender is not in the view although the view
\* has room, after the clock has moved past the last_seen of a member
C15_Witness ==
    /\ last.op = "handle_gossip" /\ last.seen = 0
    /\ last.from \notin ViewAddrs("a")
    /\ Len(membership["a"].list) < membership["a"].limit
    /\ \E i \in 1..Len(membership["a"].list) :
           membership["a"].list[i].last_seen < current_time_ms(clock)

(***************************************************************************)
(* C16, IWANT replies and the original transmission (WireSpec).            *)
(***************************************************************************)
\* C16: every GOSSIP datagram that handle_iwant sends equals, byte for byte,
\* a datagram that was transmitted earlier by or to the replying node, for
\* the messages the node received and for the messages it originated.
C16_ReplyIsOriginal ==
    [][(last'.op = "handle_iwant" /\ last' # last) =>
          \A i \in 1..Len(last'.sent) :
              \E d \in net :
                  /\ d.from = last'.node \/ d.to = last'.node
                  /\ d.bytes = last'.sent[i].bytes]_vars

(***************************************************************************)
(* C17, handle_ihave (GossipSpec).                                         *)
(***************************************************************************)
\* the ids the seen-set of n holds: the MAX_SEEN_MSGS most recent insertions
SeenSet(n) ==
    {ins[n][i] : i \in {j \in 1..Len(ins[n]) : j > Len(ins[n]) - MAX_SEEN_MSGS}}

\* the ids an IHAVE advertises
Advertised(msg) == IF "ids" \in DOMAIN msg.payload THEN msg.payload.ids ELSE <<>>

\* the advertised ids that n has not seen, in the order of the IHAVE
Missing(n, msg) == SelectSeq(Advertised(msg), LAMBDA id : id \notin SeenSet(n))

\* C17: handling an IHAVE sends nothing when every advertised id is in the
\* seen-set, and otherwise one IWANT, to the sender, whose ids are the
\* advertised ids that are not in the seen-set; the seen-set and the gossip
\* store stay as they were.
C17_HandleIHave ==
    [][last'.op = "handle_ihave" =>
          /\ UNCHANGED <<seen_ids, seen_count, gossip_store, gossip_store_count, ins>>
          /\ LET n == last'.node
                 want == Missing(n, last'.msg) IN
             IF want = <<>> THEN last'.sent = <<>>
             ELSE /\ Len(last'.sent) = 1
                  /\ last'.sent[1].to = last'.from
                  /\ WireType(last'.sent[1].bytes) = "IWANT"
                  /\ WirePayload(last'.sent[1].bytes).ids = want]_vars

\* an IHAVE that advertised a seen and an unseen id was answered with an IWANT
C17_Witness ==
    /\ last.op = "handle_ihave"
    /\ Len(last.sent) = 1
    /\ \E i \in 1..Len(Advertised(last.msg)) :
           Advertised(last.msg)[i] \in SeenSet(last.node)
    /\ Len(Missing(last.node, last.msg)) < Len(Advertised(last.msg))

(***************************************************************************)
(* C18, the contents of an IHAVE (PullSpec).  The number of ids the        *)
(* seen-set holds is the number of insertions up to MAX_SEEN_MSGS.         *)
(***************************************************************************)
Min(x, y) == IF x < y THEN x ELSE y

\* the k most recent insertions of n, newest first
Newest(n, k) == [i \in 1..k |-> ins[n][Len(ins[n]) + 1 - i]]

Eligible(n, exclude) == ViewAddrs(n) \ {exclude}

\* C19: a sample of count k with an exclude returns min(k, e) addresses, e
\* being the number of peers of the view other than exclude: all of them when
\* there are fewer than k, and none when k <= 0 or the view is empty.
C19_SampleSize ==
    last.op = "membership_get_random" =>
        LET e == Cardinality(Eligible(last.node, last.from))
            k == last.seen IN
        /\ Len(last.sent) = IF k <= 0 THEN 0 ELSE Min(k, e)
        /\ k >= e => {last.sent[i].to : i \in 1..Len(last.sent)}
                        = Eligible(last.node, last.from)

\* a sample of more peers than are eligible, with the excluded peer in the
\* view, returned the one eligible peer
C19_Witness ==
    /\ last.op = "membership_get_random"
    /\ last.from \in ViewAddrs(last.node)
    /\ last.seen > Cardinality(Eligible(last.node, last.from))
    /\ Len(last.sent) = 1

(***************************************************************************)
(* C20, touch_or_add (ViewSpec).                                           *)
(***************************************************************************)
\* a call of membership_add
AddStep == last'.op = "membership_add" /\ clock' = clock

\* C20: membership_add of an address of the view updates the last_seen of
\* that peer and nothing else (0, REFRESHED); of another address while
\* count < limit, appends it (1, ADDED); otherwise it returns -1
\* (REJECTED_FULL) and leaves the view as it was, every peer in its slot with
\* its last_seen.
C20_TouchOrAdd ==
    [][AddStep =>
          LET n == last'.node
              addr == last'.from
              old == membership[n].list
              new == membership'[n].list
              now == current_time_ms(clock) IN
          /\ membership'[n].limit = membership[n].limit
          /\ IF addr \in ViewAddrs(n)
             THEN /\ last'.seen = 0
                  /\ Len(new) = Len(old)
                  /\ \A i \in 1..Len(old) :
                        /\ new[i].addr = old[i].addr
                        /\ new[i].last_seen =
                              IF old[i].addr = addr THEN now ELSE old[i].last_seen
             ELSE IF Len(old) < membership[n].limit
             THEN /\ last'.seen = 1
                  /\ new = Append(old, [addr |-> addr, last_seen |-> now])
             ELSE /\ last'.seen = -1
                  /\ new = old]_vars

\* a new address was rejected by a full view that holds peers with an older
\* last_seen
C20_Witness ==
    /\ last.op = "membership_add" /\ last.seen = -1
    /\ last.from \notin ViewAddrs(last.node)
    /\ membership[last.node].list # <<>>
    /\ \A i \in 1..Len(membership[last.node].list) :
           membership[last.node].list[i].last_seen < current_time_ms(clock)

(***************************************************************************)
(* C21, no address twice in the view (Spec).                               *)
(***************************************************************************)
\* C21: no two records of a view have the same address, whatever the order
\* of the adds of the listener and the swap-with-last removals of the ping
\* thread.
C21_NoDuplicate ==
    \A n \in Nodes :
        \A i, j \in 1..Len(membership[n].list) :
            membership[n].list[i].addr = membership[n].list[j].addr => i = j

\* the boot peer "b" was removed from slot 1, "c" was swapped into its place,
\* and "b" was added again behind it
C21_Witness ==
    /\ cfg["a"].boot = "b"
    /\ Len(membership["a"].list) = 2
    /\ membership["a"].list[1].addr = "c"
    /\ membership["a"].list[2].addr = "b"

(***************************************************************************)
(* C22, what expire removes (Spec).                                        *)
(***************************************************************************)
\* a round of the ping thread, which ends with membership_remove_expired
ExpireStep == last'.op = "ping_round" /\ clock' = clock

\* the records of a view
RecordsOf(m) == {m.list[i] : i \in 1..Len(m.list)}

\* C22: after membership_remove_expired the view holds the peers it held
\* before whose age is at most peer_timeout, each with its last_seen, and no
\* other record; every peer with a greater age is gone.
C22_ExpireExact ==
    [][ExpireStep =>
          \A n \in Nodes :
              LET kept == {r \in RecordsOf(membership[n]) :
                             current_time_ms(clock) - r.last_seen
                                 <= cfg[n].peer_timeout * 1000} IN
              IF n = last'.node
              THEN /\ RecordsOf(membership'[n]) = kept
                   /\ Len(membership'[n].list) = Cardinality(kept)
              ELSE membership'[n] = membership[n]]_vars

\* a round that sampled two peers removed both in one call: two expired
\* peers in adjacent slots, the second in the last slot
C22_Witness ==
    /\ last.op = "ping_round"
    /\ Len(last.sent) = 2
    /\ membership[last.node].list = <<>>

(***************************************************************************)
(* C23, the seen-set ring (PullSpec).                                      *)
(***************************************************************************)
\* the ids that occur in the model
KnownIds == {g[2].msg_id : g \in EnvGossip} \cup {InjectedMsg(n, 0, 0).msg_id : n \in Nodes}

\* a call of mark_seen: by handle_gossip or by the injecting main thread
MarkStep == last'.op \in {"handle_gossip", "inject_mark"}

\* C23: the scan of the seen-set finds an id exactly when it is among the
\* MAX_SEEN_MSGS most recent insertions; mark_seen of an id it finds changes
\* nothing, and mark_seen of a new id adds it and, when the ring is full,
\* drops the oldest id and no other.
C23_SeenRing ==
    /\ [](\A n \in Nodes : \A id \in KnownIds : Seen(n, id) <=> id \in SeenSet(n))
    /\ [][MarkStep =>
            LET n == last'.node
                id == last'.msg.msg_id
                full == Len(ins[n]) >= MAX_SEEN_MSGS
                oldest == ins[n][Len(ins[n]) - MAX_SEEN_MSGS + 1] IN
            /\ last'.seen = 1 <=> id \in SeenSet(n)
            /\ last'.seen = 1 =>
                  UNCHANGED <<seen_ids, seen_count, ins>>
            /\ last'.seen = 0 =>
                  /\ ins'[n] = Append(ins[n], id)
                  /\ {i \in KnownIds : seen_contains(seen_ids'[n], seen_count'[n], i)}
                        = (SeenSet(n) \cup {id}) \ (IF full THEN {oldest} ELSE {})]_vars

\* a new id was inserted into the full ring, and the id that was the oldest
\* is no longer found
C23_Witness ==
    /\ last.op = "handle_gossip" /\ last.seen = 0
    /\ Len(ins[last.node]) > MAX_SEEN_MSGS
    /\ ~Seen(last.node, ins[last.node][Len(ins[last.node]) - MAX_SEEN_MSGS])
    /\ Seen(last.node, last.msg.msg_id)

(***************************************************************************)
(* C24, malformed and unknown datagrams (DropSpec).                        *)
(***************************************************************************)
\* C24: a datagram that does not decode, or whose msg_type no handler
\* matches, is dropped: no record is written to the event sink, no datagram
\* is sent, the seen-set, the store and the view stay as they were, and the
\* listener goes on to receive the next datagram.
C24_SilentDrop ==
    /\ [][(last'.op = "drop" /\ clock' = clock) =>
            /\ last'.sent = <<>>
            /\ UNCHANGED <<membership, seen_ids, seen_count, gossip_store,
                           gossip_store_count, log, ins, net>>]_vars
    /\ [](last.op = "drop" => ENABLED (\E n \in Nodes : EnvReceive(n, DropDatagrams)))

\* a datagram was dropped by a node that has peers, seen ids and event records
C24_Witness ==
    /\ last.op = "drop"
    /\ membership[last.node].list # <<>>
    /\ seen_count[last.node] > 0
    /\ log[last.node] # <<>>

(***************************************************************************)
(* C29, PING and PONG (FrameSpec).                                         *)
(***************************************************************************)
\* new is old after a touch_or_add of addr at time now
TouchedOrAdded(old, new, addr, now) ==
    /\ new.limit = old.limit
    /\ IF \E i \in 1..Len(old.list) : old.list[i].addr = addr
       THEN /\ Len(new.list) = Len(old.list)
            /\ \A i \in 1..Len(old.list) :
                  /\ new.list[i].addr = old.list[i].addr
                  /\ new.list[i].last_seen =
                        IF old.list[i].addr = addr THEN now ELSE old.list[i].last_seen
       ELSE IF Len(old.list) < old.limit
       THEN new.list = Append(old.list, [addr |-> addr, last_seen |-> now])
       ELSE new = old

\* C29: handling a PING touch_or_adds the socket address of the sender and
\* sends one PONG, to that sender, whose reply_to is the msg_id of the PING;
\* handling a PONG touch_or_adds the sender and sends nothing.
C29_PingPong ==
    [][(last'.op \in {"handle_ping", "handle_pong"} /\ clock' = clock) =>
          LET n == last'.node IN
          /\ TouchedOrAdded(membership[n], membership'[n], last'.from,
                            current_time_ms(clock))
          /\ IF last'.op = "handle_pong" THEN last'.sent = <<>>
             ELSE /\ Len(last'.sent) = 1
                  /\ last'.sent[1].to = last'.from
                  /\ WireType(last'.sent[1].bytes) = "PONG"
                  /\ WirePayload(last'.sent[1].bytes).reply_to = last'.msg.msg_id]_vars

\* a PING of a peer of the view was answered after the clock had advanced,
\* and the peer's last_seen is the time of the PING
C29_Witness ==
    /\ last.op = "handle_ping" /\ Len(last.sent) = 1
    /\ clock > 0
    /\ \E i \in 1..Len(membership[last.node].list) :
          /\ membership[last.node].list[i].addr = last.from
          /\ membership[last.node].list[i].last_seen = current_time_ms(clock)
    /\ Len(membership[last.node].list) = 2

(***************************************************************************)
(* C30, the node's own address (NetSpec).                                  *)
(***************************************************************************)
\* C30: the membership view of a node never contains the address of the
\* node itself, in particular not after the node has bootstrapped to a peer
\* and processed the PEERS_LIST sent in reply to its HELLO.
C30_NoSelfInView ==
    \A n \in Nodes : \A i \in 1..Len(membership[n].list) :
        membership[n].list[i].addr # n

(***************************************************************************)
(* C27, the order of the event sink (GossipSpec).  As stated the property  *)
(* is violated by a node that originated the message: its SEND records     *)
(* have no RECEIVE before them, and once MAX_SEEN_MSGS later ids have      *)
(* overwritten the id in the ring a copy that comes back is logged as      *)
(* RECEIVE after them.                                                     *)
(***************************************************************************)
\* C27 as stated: in the event sink of a node, the RECEIVE record of a
\* GOSSIP msg_id precedes every SEND GOSSIP record of that msg_id.
C27_ReceiveFirst ==
    \A n \in Nodes : \A id \in KnownIds :
        Records(n, "RECEIVE", id) # {} =>
            \A j \in Records(n, "SEND", id) :
                \E i \in Records(n, "RECEIVE", id) : i < j

\* C27, amended: every SEND GOSSIP record of a msg_id that the node's own
\* main did not build is preceded by a RECEIVE record of that msg_id.
C27_ReceiveOrOrigin ==
    \A n \in Nodes : \A j \in 1..Len(log[n]) :
        log[n][j][1] = "SEND" =>
            \/ log[n][j][3][1] = NodeIdOf(n)
            \/ \E i \in 1..(j - 1) : log[n][i] = <<"RECEIVE", "GOSSIP", log[n][j][3]>>

\* a node recorded RECEIVE of a message, its relay send and then its reply
\* to an IWANT for the message
C27_Witness ==
    \E n \in Nodes :
        /\ last.op = "handle_iwant" /\ last.node = n /\ Len(last.sent) = 1
        /\ Cardinality(Records(n, "RECEIVE", G1)) = 1
        /\ Cardinality(Records(n, "SEND", G1)) = 2

(***************************************************************************)
(* C25, node->lock and the sent-message counter (ThreadSpec).              *)
(***************************************************************************)
\* thread t of node n completes sent_messages++
IncStep(n, t) ==
    /\ NextOp(n, t) = "inc"
    /\ threads'[n][t].todo = Tail(threads[n][t].todo)

\* C25: the sent-message counter is accessed under node->lock like the
\* seen-set and the store, so that no increment of it is lost under any
\* interleaving: each completed sent_messages++ leaves the counter one above
\* what it was.
C25_NoLostIncrement ==
    [][\A n \in Nodes : \A t \in Threads :
          IncStep(n, t) => sent_messages'[n] = sent_messages[n] + 1]_vars

\* the part of C25 that holds: every access to the seen-set and to the store
\* is made by a thread that holds node->lock
C25_SeenStoreGuarded ==
    \A n \in Nodes : \A t \in Threads :
        NextOp(n, t) \in {"seen", "store"} => lock[n] = t

(***************************************************************************)
(* C26, the order of the two locks (ThreadSpec).                           *)
(***************************************************************************)
Holds(n, t) == lock[n] = t \/ membership_lock[n] = t

\* C26: no thread acquires node->lock while it holds membership.lock,
\* relay_gossip is entered by a thread that holds neither lock, and a thread
\* that holds a lock is never about to wait (for a lock or for a join), so
\* that no set of threads waits in a cycle on the two locks.
C26_LockDiscipline ==
    \A n \in Nodes : \A t \in Threads :
        /\ NextOp(n, t) = "lock" => membership_lock[n] # t
        /\ NextOp(n, t) = "relay_gossip" => ~Holds(n, t)
        /\ Holds(n, t) =>
              NextOp(n, t) \notin {"none", "lock", "mlock", "join_listener",
                                   "join_ping", "join_pull"}

\* main is about to relay its message while the listener holds node->lock,
\* the ping thread holds membership.lock and the pull thread waits for
\* node->lock
C26_Witness ==
    \E n \in Nodes :
        /\ NextOp(n, "main") = "relay_gossip"
        /\ lock[n] = "listener"
        /\ membership_lock[n] = "ping"
        /\ NextOp(n, "pull") = "lock"

(***************************************************************************)
(* C28, shutdown (ShutdownSpec).                                           *)
(***************************************************************************)
Exited(n) == \A t \in Duties : threads[n][t].at \in {"done", "unstarted"}

\* C28: once node_cleanup has cleared running and closed the socket, every
\* started duty leaves its loop, the joins return and the sink is closed;
\* the sink is closed only after every started duty has exited, so that no
\* thread is about to write a record to a closed sink.
C28_Shutdown ==
    /\ [](\A n \in Nodes :
            /\ log_file[n] = "closed" => Exited(n)
            /\ \A t \in Threads : NextOp(n, t) = "log_event" => log_file[n] = "open")
    /\ \A n \in {"a"} :
          (running[n] = 0 /\ sockfd[n] = "closed") ~>
              (Exited(n) /\ log_file[n] = "closed")

\* the sink was closed after the listener had handled a datagram and the
\* ping and the pull thread had each run a round
C28_Witness ==
    /\ log_file["a"] = "closed"
    /\ threads["a"]["listener"].rounds = 1
    /\ threads["a"]["ping"].rounds = 1
    /\ threads["a"]["pull"].rounds = 1
    /\ threads["a"]["pull"].at = "done"

(***************************************************************************)
(* C31, the admission gate (Spec).                                         *)
(***************************************************************************)
\* C31: on a node with pow_difficulty > 0 the address of a remote sender
\* enters the view, as a result of a datagram of that sender, only when the
\* datagram is a HELLO with valid proof-of-work.
C31_AdmissionGate ==
    [][\A n \in Nodes :
          (/\ cfg[n].pow_difficulty > 0
           /\ last'.node = n /\ last'.from # NoAddr /\ clock' = clock
           /\ last'.from \notin ViewAddrs(n)
           /\ \E i \in 1..Len(membership'[n].list) :
                 membership'[n].list[i].addr = last'.from)
          => /\ last'.op = "handle_hello"
             /\ node_verify_hello_pow(cfg[n].pow_difficulty, last'.msg) = 1]_vars

(***************************************************************************)
(* C32, advertised ids and the store (PullSpec).                           *)
(***************************************************************************)
\* C32: with max_ihave_ids <= MAX_STORED_GOSSIP, every msg_id of an IHAVE is
\* in the gossip store of the node at the moment the pull round builds the
\* IHAVE, under every interleaving of the pull thread with the listener and
\* with main's injection.
C32_AdvertisedStored ==
    [][\A n \in Nodes :
          (/\ last'.op = "pull_round" /\ last'.node = n /\ last'.sent # <<>>
           /\ cfg[n].max_ihave_ids <= MAX_STORED_GOSSIP)
          => \A i \in 1..Len(last'.msg.payload.ids) :
                Stored(n, last'.msg.payload.ids[i])]_vars

(***************************************************************************)
(* C33, ttl and pull (GossipSpec).  As stated the property is violated by  *)
(* handle_iwant, which sends the stored copy with the ttl it arrived with, *)
(* whatever that ttl is.                                                   *)
(***************************************************************************)
WireMsgId(bytes) == bytes[2]

\* the ttl of the copy of msg_id that n holds in its store
StoredTtl(n, msg_id) ==
    WireTtl(gossip_store[n][find_stored(gossip_store[n], gossip_store_count[n],
                                        msg_id)].serialized)

\* the GOSSIP datagrams of the last step, if it handled a GOSSIP or an IWANT
Transmitted ==
    IF last.op \in {"handle_gossip", "handle_iwant"}
    THEN {last.sent[i].bytes : i \in 1..Len(last.sent)}
    ELSE {}

\* C33 as stated: every GOSSIP a node transmits for a message it received,
\* as a push relay or as an IWANT reply, carries a ttl that is not negative
\* and is strictly below the ttl of the copy the node received, so that a
\* node that received ttl 0 transmits nothing.
C33_TtlBoundsPull ==
    \A b \in Transmitted :
        /\ WireTtl(b) >= 0
        /\ WireTtl(b) < StoredTtl(last.node, WireMsgId(b))

\* C33, amended: a push relay is sent only for a copy that arrived with
\* ttl > 0 and carries that ttl less one; an IWANT reply is byte for byte
\* the stored copy, which for a received message is the datagram as it
\* arrived, with its ttl unchanged and whatever its ttl.
C33_TtlBoundsPush ==
    /\ (last.op = "handle_gossip" /\ last.seen = 0) =>
          /\ last.msg.ttl <= 0 => last.sent = <<>>
          /\ \A b \in Transmitted :
                /\ WireMsgId(b) = last.msg.msg_id
                /\ WireTtl(b) = last.msg.ttl - 1
    /\ last.op = "handle_iwant" =>
          \A b \in Transmitted :
              /\ \E k \in 0..(MAX_STORED_GOSSIP - 1) :
                    gossip_store[last.node][k].serialized = b
              /\ WireMsgId(b)[1] # NodeIdOf(last.node) =>
                    b \in {serialize_message(g[2]) : g \in EnvGossip}

\* a node that received a message with ttl 0 has sent it, with ttl 0, in
\* reply to an IWANT
C33_Witness ==
    /\ last.op = "handle_iwant"
    /\ Records(last.node, "RECEIVE", G2) # {}
    /\ \E b \in Transmitted : WireMsgId(b) = G2 /\ WireTtl(b) = 0

(***************************************************************************)
(* C34, who refreshes last_seen (Spec).                                    *)
(***************************************************************************)
\* the last_seen of peer in the view m, -1 if peer is not in m
LastSeen(m, peer) ==
    IF \E i \in 1..Len(m.list) : m.list[i].addr = peer
    THEN m.list[CHOOSE i \in 1..Len(m.list) : m.list[i].addr = peer].last_seen
    ELSE -1

\* C34: the last_seen of a peer of the view changes only in a step that
\* handles a datagram sent from the address of that peer; a datagram of a
\* third node, such as a PEERS_LIST naming the peer, leaves it as it was.
C34_RefreshBySelf ==
    [][\A n \in Nodes : \A peer \in ViewAddrs(n) :
          (/\ LastSeen(membership'[n], peer) # -1
           /\ LastSeen(membership'[n], peer) # LastSeen(membership[n], peer))
          => last'.from = peer]_vars

====
